---- MODULE Spec2Model ----
(***************************************************************************)
(* USB Audio Class 2.0 gadget function (drivers/usb/gadget/function/       *)
(* f_uac2.c): the isochronous completion path, the playback pacing         *)
(* arithmetic, the alt-setting state machine and the ALSA callbacks, as a  *)
(* state machine.  The completion callback is modelled statement by        *)
(* statement (it runs concurrently with the control path); the control     *)
(* path handlers are single steps.                                         *)
(***************************************************************************)
EXTENDS Integers, Sequences, FiniteSets, TLC

(* ------------------------------------------------------------------ *)
(* Program constants                                                   *)
(* ------------------------------------------------------------------ *)

USB_XFERS == 8

MAX_AS_OUT_ALT == 6

MAX_AS_IN_ALT == 6

\* fs_epin_desc/fs_epout_desc.wMaxPacketSize, copied over the high-speed
\* descriptors in afunc_bind and stored in prm->max_psize.
max_psize == 1023

\* unsigned int: p_residue is held as its two's-complement value, so that a
\* negative v stands for the unsigned 2^32 + v (what a subtraction below zero
\* leaves).  U32Div is the unsigned quotient, with 2^32 = 65536 * 65536.
Pow32Div(m) == 65536 * (65536 \div m) + (65536 * (65536 % m)) \div m

Pow32Mod(m) == (65536 * (65536 % m)) % m

U32Div(x, m) ==
    IF x >= 0 THEN x \div m ELSE Pow32Div(m) + ((Pow32Mod(m) + x) \div m)

clk_frequencies == {44100, 48000}

CLK_FREQ_ARR_SIZE == 2

USB_OUT_CLK_ID == 9

USB_IN_CLK_ID == 10

\* include/linux/usb/audio-v2.h
UAC2_CS_CUR == 1

UAC2_CS_RANGE == 2

UAC2_CS_CONTROL_SAM_FREQ == 1

UAC2_CS_CONTROL_CLOCK_VALID == 2

\* -EOPNOTSUPP
EOPNOTSUPP == -95

\* Interface numbers handed out by usb_interface_id in afunc_bind.
ac_intf == 0

as_out_intf == 1

as_in_intf == 2

\* Defaults of f_uac2_opts (UAC2_DEF_* of u_uac2.h): 48 kHz, stereo, 16 bit.
UAC2_DEF_SRATE == 48000

UAC2_DEF_SSIZE == 2

UAC2_DEF_CHMASK == 3

UAC2_DEF_SBITRES == 16

Dir == {"p", "c"}

Xfers == 0 .. (USB_XFERS - 1)

\* (MONO, STEREO) X (16(2), 24(3), 24(4)): bSubslotSize, bmChannelConfig,
\* bBitResolution of as_in_alt_setting[alt-1] / as_out_alt_setting[alt-1].
AltFormat(alt) ==
    CASE alt = 1 -> [ssize |-> 2, chmask |-> 1, sres |-> 16]
      [] alt = 2 -> [ssize |-> 2, chmask |-> 3, sres |-> 16]
      [] alt = 3 -> [ssize |-> 3, chmask |-> 1, sres |-> 24]
      [] alt = 4 -> [ssize |-> 3, chmask |-> 3, sres |-> 24]
      [] alt = 5 -> [ssize |-> 4, chmask |-> 1, sres |-> 24]
      [] alt = 6 -> [ssize |-> 4, chmask |-> 3, sres |-> 24]

\* A variant of num_channels that takes the mask for the count.
num_channels_mask(chanmask) == chanmask

RECURSIVE num_channels(_)
num_channels(chanmask) ==
    IF chanmask = 0 THEN 0
    ELSE (chanmask % 2) + num_channels(chanmask \div 2)

\* (1 << (ep_desc->bInterval - 1)) * factor, for the playback endpoint:
\* full speed  bInterval 1, factor 1000; high speed bInterval 4, factor 125.
Speeds == {"FULL", "HIGH"}

Interval(speed) ==
    IF speed = "FULL" THEN (2 ^ (1 - 1)) * 1000 ELSE (2 ^ (4 - 1)) * 125

Min(a, b) == IF a < b THEN a ELSE b

RECURSIVE SumSeq(_)
SumSeq(s) == IF s = <<>> THEN 0 ELSE Head(s) + SumSeq(Tail(s))

(* ------------------------------------------------------------------ *)
(* Bounds of the model                                                 *)
(* ------------------------------------------------------------------ *)

\* completions begun that Spec explores
MaxCompletions == 1

\* completions of one stream explored by SpecStream
MaxTicks == 21

\* capture completions of one stream explored by SpecStream
MaxCaptures == 4

\* completions explored by SpecAlt
MaxRearms == 1

\* control transfers explored by SpecCtl
MaxSetups == 2

(* ------------------------------------------------------------------ *)
(* Inputs                                                              *)
(* ------------------------------------------------------------------ *)

\* req->actual of an OUT (capture) completion
CaptureLens == {0, 192, 1023}

\* req->status of a completion
Statuses == {"OK", "EXDEV", "ESHUTDOWN"}

\* buffer geometry accepted by the constraints of uac2_pcm_open
Geometries ==
    { [dma_bytes |-> 2048, period_size |-> 512],
      [dma_bytes |-> 4096, period_size |-> 1024] }

TriggerCmds == {"START", "STOP", "SUSPEND", "RESUME", "PAUSE_PUSH"}

(* ------------------------------------------------------------------ *)
(* State                                                               *)
(* ------------------------------------------------------------------ *)

VARIABLES
    as_alt,            \* as_in_alt ("p") and as_out_alt ("c") of audio_dev
    opts,              \* f_uac2_opts: *_srate, *_ssize, *_chmask, *_sres
    ep_enabled,        \* uac2_rtd_params.ep_enabled
    dma_bytes,         \* uac2_rtd_params.dma_bytes
    dma_area,          \* uac2_rtd_params.dma_area: "NULL" or "ring"
    period_size,       \* uac2_rtd_params.period_size
    ss,                \* uac2_rtd_params.ss: "NULL" or "substream"
    is_pcm_open,       \* uac2_rtd_params.is_pcm_open
    hw_ptr,            \* uac2_rtd_params.hw_ptr
    lock,              \* uac2_rtd_params.lock is held
    ureq,              \* uac2_rtd_params.ureq[i].req, its req->length and req->buf
    ep_on,             \* in_ep / out_ep enabled (usb_ep_enable/usb_ep_disable)
    epq,               \* requests queued on the endpoint, in queueing order
    cpl,               \* the agdev_iso_complete call in progress
    p_interval,        \* snd_uac2_chip.p_interval
    p_residue,         \* snd_uac2_chip.p_residue
    p_pktsize,         \* snd_uac2_chip.p_pktsize
    p_pktsize_residue, \* snd_uac2_chip.p_pktsize_residue
    p_framesize,       \* snd_uac2_chip.p_framesize
    work,              \* p_work, c_work, disconnect_work: pending state
    runtime_state,     \* ALSA runtime->status->state of the substream
    runtime_hw,        \* runtime->hw as bound by uac2_pcm_open
    periods,           \* snd_pcm_period_elapsed calls made
    pkts,              \* playback packet lengths since p_residue was reset
    ret,               \* what the last control-path call returned
    requeued,          \* usb_ep_queue was called on a request still queued
    fault,             \* first fatal fault of the kernel, "none" if none
    ep0req,            \* cdev->req, the request of endpoint 0, and its buffer
    opts_lock,         \* f_uac2_opts.lock (a mutex): the call that holds it
    rbuf,              \* uac2_rtd_params.rbuf: the slots that hold other than 0
    uevent,            \* is_prv_connect of uevent_p_work and uevent_c_work,
                       \* the worklist of uevent_wq in queueing order, the
                       \* work item its worker is running, and the uevents
                       \* sent so far
    ncpl               \* completions begun

vars ==
    << as_alt, opts, ep_enabled, dma_bytes, dma_area, period_size, ss,
       is_pcm_open, hw_ptr, lock, ureq, ep_on, epq, cpl, p_interval,
       p_residue, p_pktsize, p_pktsize_residue, p_framesize, work,
       runtime_state, runtime_hw, periods, pkts, ret, requeued, fault,
       ep0req, opts_lock, rbuf, uevent, ncpl >>

\* variable groups, for UNCHANGED
pacing == << p_interval, p_pktsize, p_pktsize_residue, p_framesize >>

ring == << dma_bytes, dma_area, period_size >>

pool == << ureq, ep_on, epq, ep_enabled >>

NoReq == [alloc |-> FALSE, length |-> 0, buf |-> 0]

Idle ==
    [pc |-> "idle", i |-> 0, status |-> "OK", length |-> 0, actual |-> 0,
     substream |-> "NULL", hw |-> 0, update_alsa |-> FALSE, freed |-> FALSE]

NoHw == [rate_min |-> 0, rate_max |-> 0, channels_min |-> 0, channels_max |-> 0]

\* The worker of uevent_wq is running no work item.
NotRunning == [w |-> "none", timed |-> FALSE]

\* sizeof(struct cntrl_cur_lay3): one __le32.
SizeofCur == 4

\* sizeof(struct CNTRL_RANGE_LAY3(CLK_FREQ_ARR_SIZE)), packed: wNumSubRanges,
\* dRangeAttrs[CLK_FREQ_ARR_SIZE][3], dMIN, dMAX, dRES.
SizeofRange == 2 + 4 * 3 * CLK_FREQ_ARR_SIZE + 4 + 4 + 4

\* The bytes of req->buf that are kept: as many as the longest response.
Ep0BufLen == SizeofRange

\* Bytes found in memory that was never written: the stack of a handler,
\* the buffer of endpoint 0 as it was allocated.
StackJunk == {0, 90}

\* State after afunc_alloc_inst, a p_srate written through configfs (or the
\* default left alone), afunc_alloc and afunc_bind.
InitWith(srate, junk) ==
    /\ as_alt = [d \in Dir |-> 0]
    /\ opts = [p_srate |-> srate, c_srate |-> UAC2_DEF_SRATE,
               p_ssize |-> UAC2_DEF_SSIZE, c_ssize |-> UAC2_DEF_SSIZE,
               p_chmask |-> UAC2_DEF_CHMASK, c_chmask |-> UAC2_DEF_CHMASK,
               p_sres |-> UAC2_DEF_SBITRES, c_sres |-> UAC2_DEF_SBITRES]
    /\ ep_enabled = [d \in Dir |-> FALSE]
    /\ dma_bytes = [d \in Dir |-> 0]
    /\ dma_area = [d \in Dir |-> "NULL"]
    /\ period_size = [d \in Dir |-> 0]
    /\ ss = [d \in Dir |-> "NULL"]
    /\ is_pcm_open = [d \in Dir |-> FALSE]
    /\ hw_ptr = [d \in Dir |-> 0]
    /\ lock = [d \in Dir |-> FALSE]
    /\ ureq = [d \in Dir |-> [i \in Xfers |-> NoReq]]
    /\ ep_on = [d \in Dir |-> FALSE]
    /\ epq = [d \in Dir |-> <<>>]
    /\ cpl = [d \in Dir |-> Idle]
    /\ p_interval = 0
    /\ p_residue = 0
    /\ p_pktsize = 0
    /\ p_pktsize_residue = 0
    /\ p_framesize = 0
    /\ work = [w \in {"p_work", "c_work", "disconnect_work"} |-> "idle"]
    /\ runtime_state = [d \in Dir |-> "CLOSED"]
    /\ runtime_hw = [d \in Dir |-> NoHw]
    /\ periods = [d \in Dir |-> 0]
    /\ pkts = <<>>
    /\ ret = "OK"
    /\ requeued = FALSE
    /\ fault = "none"
    /\ ep0req = [buf |-> [k \in 1 .. Ep0BufLen |-> junk], length |-> 0,
                 zero |-> FALSE, complete |-> "composite_setup_complete",
                 queued |-> FALSE, dir |-> "in"]
    /\ opts_lock = "none"
    /\ rbuf = [d \in Dir |-> [i \in Xfers |-> FALSE]]
    /\ uevent = [is_prv_connect |-> [d \in Dir |-> FALSE],
                 queue |-> <<>>, running |-> NotRunning, sent |-> <<>>]
    /\ ncpl = 0

\* State after afunc_alloc_inst, afunc_alloc and afunc_bind.
Init == InitWith(UAC2_DEF_SRATE, 0)

(* ------------------------------------------------------------------ *)
(* agdev_iso_complete, statement by statement                          *)
(* ------------------------------------------------------------------ *)

\* The slots of rbuf that n bytes written at offset buf reach.
Touched(buf, n) ==
    {s \in Xfers : buf < (s + 1) * max_psize /\ s * max_psize < buf + n}

\* rbuf after n bytes of audio were written at offset buf.
Written(slots, buf, n) ==
    [s \in Xfers |-> slots[s] \/ s \in Touched(buf, n)]

\* The controller gives back the oldest queued request of the endpoint and
\* calls req->complete with its status and, for OUT, its received length;
\* the bytes received are in req->buf.
agdev_iso_begin(d, st, act) ==
    /\ fault = "none"
    /\ cpl[d].pc = "idle"
    /\ epq[d] # <<>>
    /\ LET i == Head(epq[d]) IN
         /\ act <= ureq[d][i].length
         /\ cpl' = [cpl EXCEPT ![d] =
                      [pc |-> "check", i |-> i, status |-> st,
                       length |-> ureq[d][i].length, actual |-> act,
                       substream |-> "NULL", hw |-> 0,
                       update_alsa |-> FALSE, freed |-> FALSE]]
    /\ epq' = [epq EXCEPT ![d] = Tail(@)]
    /\ rbuf' = IF d = "c"
               THEN [rbuf EXCEPT ![d] =
                       Written(@, ureq[d][Head(epq[d])].buf, act)]
               ELSE rbuf
    /\ UNCHANGED << ep0req, opts_lock, uevent >>
    /\ UNCHANGED << as_alt, opts, ep_enabled, ring, ss, is_pcm_open, hw_ptr,
                    lock, ureq, ep_on, pacing, p_residue, work, runtime_state,
                    runtime_hw, periods, requeued, pkts, ret, fault >>

\* A variant of CheckDrops that drops every request that failed.
CheckDropsFailed(enabled, status) == ~enabled \/ status # "OK"

\* A variant of CheckDrops that lets a shut-down request through.
CheckDropsNoShutdown(enabled, status) == ~enabled

\* line 220: the completions that return at once.
CheckDrops(enabled, status) == ~enabled \/ status = "ESHUTDOWN"

\* line 220: if (!prm->ep_enabled || req->status == -ESHUTDOWN) return;
agdev_iso_check(d) ==
    /\ fault = "none"
    /\ cpl[d].pc = "check"
    /\ cpl' = [cpl EXCEPT ![d] =
                 IF CheckDrops(ep_enabled[d], cpl[d].status)
                 THEN Idle ELSE [@ EXCEPT !.pc = "read_ss"]]
    /\ UNCHANGED << ep0req, opts_lock, rbuf, uevent >>
    /\ UNCHANGED << as_alt, opts, ep_enabled, ring, ss, is_pcm_open, hw_ptr,
                    lock, ureq, ep_on, epq, pacing, p_residue, work,
                    runtime_state, runtime_hw, periods, requeued, pkts, ret,
                    fault >>

\* A variant of agdev_iso_read_ss that goes on without testing substream.
agdev_iso_read_ss_unchecked(d) ==
    /\ fault = "none"
    /\ cpl[d].pc = "read_ss"
    /\ cpl' = [cpl EXCEPT ![d] = [@ EXCEPT !.substream = ss[d], !.pc = "lock"]]
    /\ UNCHANGED << ep0req, opts_lock, rbuf, uevent >>
    /\ UNCHANGED << as_alt, opts, ep_enabled, ring, ss, is_pcm_open, hw_ptr,
                    lock, ureq, ep_on, epq, pacing, p_residue, work,
                    runtime_state, runtime_hw, periods, requeued, pkts, ret,
                    fault >>

\* lines 231-235: substream = prm->ss; if (!substream) goto exit;
agdev_iso_read_ss(d) ==
    /\ fault = "none"
    /\ cpl[d].pc = "read_ss"
    /\ cpl' = [cpl EXCEPT ![d] =
                 [@ EXCEPT !.substream = ss[d],
                           !.pc = IF ss[d] = "NULL" THEN "exit" ELSE "lock"]]
    /\ UNCHANGED << ep0req, opts_lock, rbuf, uevent >>
    /\ UNCHANGED << as_alt, opts, ep_enabled, ring, ss, is_pcm_open, hw_ptr,
                    lock, ureq, ep_on, epq, pacing, p_residue, work,
                    runtime_state, runtime_hw, periods, requeued, pkts, ret,
                    fault >>

\* line 237: spin_lock_irqsave(&prm->lock, flags);
agdev_iso_lock(d) ==
    /\ fault = "none"
    /\ cpl[d].pc = "lock"
    /\ ~lock[d]
    /\ lock' = [lock EXCEPT ![d] = TRUE]
    /\ cpl' = [cpl EXCEPT ![d].pc = IF d = "p" THEN "tick" ELSE "account"]
    /\ UNCHANGED << ep0req, opts_lock, rbuf, uevent >>
    /\ UNCHANGED << as_alt, opts, ep_enabled, ring, ss, is_pcm_open, hw_ptr,
                    ureq, ep_on, epq, pacing, p_residue, work, runtime_state,
                    runtime_hw, periods, requeued, pkts, ret, fault >>

\* lines 246-247: req->length = p_pktsize; p_residue += p_pktsize_residue;
agdev_iso_tick ==
    /\ fault = "none"
    /\ cpl["p"].pc = "tick"
    /\ cpl' = [cpl EXCEPT !["p"] =
                 [@ EXCEPT !.length = p_pktsize, !.pc = "test"]]
    /\ p_residue' = p_residue + p_pktsize_residue
    /\ UNCHANGED << ep0req, opts_lock, rbuf, uevent >>
    /\ UNCHANGED << as_alt, opts, ep_enabled, ring, ss, is_pcm_open, hw_ptr,
                    lock, ureq, ep_on, epq, pacing, work, runtime_state,
                    runtime_hw, periods, requeued, pkts, ret, fault >>

\* A variant of CarryDue that folds when no whole frame has accumulated.
CarryDueAlways(residue, interval, framesize) ==
    U32Div(residue, interval) >= 0

\* A variant of CarryDue that folds the residue one comparison too late.
CarryDueStrict(residue, interval, framesize) ==
    U32Div(residue, interval) > framesize

\* line 254: p_residue / p_interval >= p_framesize
CarryDue(residue, interval, framesize) ==
    U32Div(residue, interval) >= framesize

\* A variant of CarryResidue that takes one interval, not one frame, off.
CarryResidueInterval(residue, framesize, interval) == residue - interval

\* line 256: p_residue - p_framesize * p_interval
CarryResidue(residue, framesize, interval) == residue - framesize * interval

\* line 254: if (p_residue / p_interval >= p_framesize)
agdev_iso_test ==
    /\ fault = "none"
    /\ cpl["p"].pc = "test"
    /\ IF p_interval = 0
       THEN fault' = "div_by_zero" /\ cpl' = cpl
       ELSE /\ fault' = fault
            /\ cpl' = [cpl EXCEPT !["p"].pc =
                         IF CarryDue(p_residue, p_interval, p_framesize)
                         THEN "carry" ELSE "account"]
    /\ UNCHANGED << ep0req, opts_lock, rbuf, uevent >>
    /\ UNCHANGED << as_alt, opts, ep_enabled, ring, ss, is_pcm_open, hw_ptr,
                    lock, ureq, ep_on, epq, pacing, p_residue, work,
                    runtime_state, runtime_hw, periods, requeued, pkts, ret >>

\* lines 255-257: req->length += p_framesize;
\*                p_residue -= p_framesize * p_interval;
agdev_iso_carry ==
    /\ fault = "none"
    /\ cpl["p"].pc = "carry"
    /\ cpl' = [cpl EXCEPT !["p"] =
                 [@ EXCEPT !.length = @ + p_framesize, !.pc = "account"]]
    /\ p_residue' = CarryResidue(p_residue, p_framesize, p_interval)
    /\ UNCHANGED << ep0req, opts_lock, rbuf, uevent >>
    /\ UNCHANGED << as_alt, opts, ep_enabled, ring, ss, is_pcm_open, hw_ptr,
                    lock, ureq, ep_on, epq, pacing, work, runtime_state,
                    runtime_hw, periods, requeued, pkts, ret, fault >>

\* A variant of PeriodCrossed that misses a packet ending on the boundary.
PeriodCrossedStrict(h, actual, psize) == (h % psize) + actual > psize

\* The period test of lines 263-266.
PeriodCrossed(h, actual, psize) == (h % psize) + actual >= psize

\* A variant of Advance that forgets to wrap at the end of the ring.
AdvanceNoWrap(h, actual, bytes) == h + actual

\* The new ring position of line 269.
Advance(h, actual, bytes) == (h + actual) % bytes

\* A variant of spin_unlock_irqrestore that returns with the lock held.
spin_unlock_skipped(l, d) == l

\* line 271: spin_unlock_irqrestore(&prm->lock, flags);
spin_unlock_irqrestore(l, d) == [l EXCEPT ![d] = FALSE]

\* lines 260-271: req->actual = req->length (playback); the period test;
\* hw_ptr = prm->hw_ptr; prm->hw_ptr = (prm->hw_ptr + req->actual) %
\* prm->dma_bytes; spin_unlock_irqrestore.
agdev_iso_account(d) ==
    /\ fault = "none"
    /\ cpl[d].pc = "account"
    /\ LET actual == IF d = "p" THEN cpl[d].length ELSE cpl[d].actual IN
         IF period_size[d] = 0 \/ dma_bytes[d] = 0
         THEN /\ fault' = "div_by_zero"
              /\ UNCHANGED << cpl, hw_ptr, lock, pkts >>
         ELSE /\ fault' = fault
              /\ cpl' = [cpl EXCEPT ![d] =
                           [@ EXCEPT !.actual = actual,
                                     !.update_alsa =
                                        PeriodCrossed(hw_ptr[d], actual,
                                                      period_size[d]),
                                     !.hw = hw_ptr[d],
                                     !.pc = "copy"]]
              /\ hw_ptr' = [hw_ptr EXCEPT ![d] =
                              Advance(hw_ptr[d], actual, dma_bytes[d])]
              /\ lock' = spin_unlock_irqrestore(lock, d)
              /\ pkts' = IF d = "p" THEN Append(pkts, cpl[d].length) ELSE pkts
    /\ UNCHANGED << ep0req, opts_lock, rbuf, uevent >>
    /\ UNCHANGED << as_alt, opts, ep_enabled, ring, ss, is_pcm_open, ureq,
                    ep_on, epq, pacing, p_residue, work, runtime_state,
                    runtime_hw, periods, requeued, ret >>

\* lines 274-292: the copy between req->buf and the ring at the saved hw_ptr,
\* split in two when it wraps.  prm->dma_bytes and prm->dma_area are read
\* here, after the lock was dropped.
agdev_iso_copy(d) ==
    /\ fault = "none"
    /\ cpl[d].pc = "copy"
    /\ IF cpl[d].actual > 0 /\ dma_area[d] = "NULL"
       THEN fault' = "null_deref" /\ cpl' = cpl
       ELSE IF cpl[d].actual > 0 /\ cpl[d].hw > dma_bytes[d]
       THEN fault' = "ring_overrun" /\ cpl' = cpl
       ELSE fault' = fault /\ cpl' = [cpl EXCEPT ![d].pc = "exit"]
    /\ rbuf' = IF d = "p" /\ fault' = fault /\ ~cpl[d].freed
               THEN [rbuf EXCEPT ![d] =
                       Written(@, ureq[d][cpl[d].i].buf, cpl[d].actual)]
               ELSE rbuf
    /\ UNCHANGED << ep0req, opts_lock, uevent >>
    /\ UNCHANGED << as_alt, opts, ep_enabled, ring, ss, is_pcm_open, hw_ptr,
                    lock, ureq, ep_on, epq, pacing, p_residue, work,
                    runtime_state, runtime_hw, periods, requeued, pkts, ret >>

InQueue(d, i) == \E k \in 1 .. Len(epq[d]) : epq[d][k] = i

\* usb_ep_queue on a request that is still queued: the controller driver
\* either refuses it (the callers only log the error) or links the request
\* into its list a second time and corrupts the list.
QueueBusy == {"EBUSY", "corrupt"}

\* lines 294-301: usb_ep_queue(ep, req, GFP_ATOMIC);
\*                if (update_alsa) snd_pcm_period_elapsed(substream);
agdev_iso_exit(d) ==
    /\ fault = "none"
    /\ cpl[d].pc = "exit"
    /\ LET i == cpl[d].i IN
         IF cpl[d].freed
         THEN /\ fault' = "use_after_free"
              /\ UNCHANGED << cpl, ureq, epq, periods, requeued >>
         ELSE \E busy \in QueueBusy :
              /\ requeued' = (requeued \/ InQueue(d, i))
              /\ IF InQueue(d, i) /\ busy = "corrupt"
                 THEN /\ fault' = "double_queue"
                      /\ UNCHANGED << cpl, ureq, epq, periods >>
                 ELSE /\ fault' = fault
                      /\ ureq' = [ureq EXCEPT ![d][i].length = cpl[d].length]
                      /\ epq' = [epq EXCEPT ![d] =
                                   IF ep_on[d] /\ ~InQueue(d, i)
                                   THEN Append(@, i) ELSE @]
                      /\ periods' = [periods EXCEPT ![d] =
                                       IF cpl[d].update_alsa THEN @ + 1 ELSE @]
                      /\ cpl' = [cpl EXCEPT ![d] = Idle]
    /\ UNCHANGED << ep0req, opts_lock, rbuf, uevent >>
    /\ UNCHANGED << as_alt, opts, ep_enabled, ring, ss, is_pcm_open, hw_ptr,
                    lock, ep_on, pacing, p_residue, work, runtime_state,
                    runtime_hw, pkts, ret >>

(* ------------------------------------------------------------------ *)
(* Helpers of the control path                                         *)
(* ------------------------------------------------------------------ *)

\* queue_delayed_work / queue_work: a work item that is already pending is
\* left as it is, timer included.
QueueWork(w, state) == IF work[w] = "idle" THEN state ELSE work[w]

\* The worklist of uevent_wq after queue_work, or queue_delayed_work with
\* no delay, on item w: an item that is not pending goes to the tail.
Worklist(q, w) == IF work[w] = "idle" THEN Append(q, w) ELSE q

\* free_ep (lines 1470-1492) on direction d: what it leaves in each field.
\* usb_ep_dequeue takes every request of the direction off the endpoint and
\* usb_ep_free_request frees it, also the one a completion is working on.
FreeEpEnabled(d) == FALSE

FreeEpUreq(d) == IF ep_enabled[d] THEN [i \in Xfers |-> NoReq] ELSE ureq[d]

FreeEpQueue(d) == IF ep_enabled[d] THEN <<>> ELSE epq[d]

FreeEpOn(d) == IF ep_enabled[d] THEN FALSE ELSE ep_on[d]

FreeEpCpl(d) ==
    IF ep_enabled[d] /\ cpl[d].pc # "idle" /\ ureq[d][cpl[d].i].alloc
    THEN [cpl[d] EXCEPT !.freed = TRUE] ELSE cpl[d]

\* snd_pcm_stop(prm->ss, SNDRV_PCM_STATE_DISCONNECTED) is called when
\* is_pcm_open.  On a NULL substream it dereferences NULL; on a running
\* substream it calls uac2_pcm_trigger(STOP) and leaves the PCM disconnected.
StopCalled(d) == is_pcm_open[d]

StopFaults(d) == StopCalled(d) /\ ss[d] = "NULL"

StopTriggers(d) == StopCalled(d) /\ ss[d] # "NULL"

\* A variant of p_residue_reset that keeps what the last stream left.
p_residue_kept(residue) == residue

\* line 1843: uac2->p_residue = 0;
p_residue_reset(residue) == 0

\* A variant of PacingFor that drops the per-tick residue.
PacingForNoResidue(srate, ssize, chmask, interval) ==
    LET framesize == ssize * num_channels(chmask)
        rate == srate * framesize
    IN  [p_framesize |-> framesize,
         p_interval |-> interval,
         p_pktsize |-> Min(rate \div interval, max_psize),
         p_pktsize_residue |-> 0]

\* A variant of PacingFor that does not cap the packet at max_psize.
PacingForUncapped(srate, ssize, chmask, interval) ==
    LET framesize == ssize * num_channels(chmask)
        rate == srate * framesize
        pktsize == rate \div interval
    IN  [p_framesize |-> framesize,
         p_interval |-> interval,
         p_pktsize |-> pktsize,
         p_pktsize_residue |->
             IF pktsize < max_psize THEN rate % interval ELSE 0]

\* The values afunc_set_alt pre-computes for iso_complete (lines 1829-1843)
\* from the rate, the format and the interval.
PacingFor(srate, ssize, chmask, interval) ==
    LET framesize == ssize * num_channels(chmask)
        rate == srate * framesize
        pktsize == Min(rate \div interval, max_psize)
    IN  [p_framesize |-> framesize,
         p_interval |-> interval,
         p_pktsize |-> pktsize,
         p_pktsize_residue |->
             IF pktsize < max_psize THEN rate % interval ELSE 0]

\* The provisioning loop of afunc_set_alt (lines 1857-1875) on direction d
\* with request length req_len, when the allocation of descriptor fail_at
\* fails (USB_XFERS: none fails) and usb_ep_queue on a queued request ends
\* as busy says.  LoopStop is the first descriptor the loop does not finish:
\* the one whose allocation fails, or the one whose second queueing corrupts
\* the controller's list.
FirstRequeued(d) ==
    LET S == {i \in Xfers : ureq[d][i].alloc /\ InQueue(d, i)}
    IN  IF S = {} THEN USB_XFERS ELSE CHOOSE i \in S : \A j \in S : i <= j

FirstFailed(d, fail_at) ==
    IF fail_at < USB_XFERS /\ ~ureq[d][fail_at].alloc
    THEN fail_at ELSE USB_XFERS

LoopStop(d, fail_at, busy) ==
    IF busy = "corrupt"
    THEN Min(FirstRequeued(d), FirstFailed(d, fail_at))
    ELSE FirstFailed(d, fail_at)

LoopCorrupts(d, fail_at, busy) ==
    /\ busy = "corrupt"
    /\ FirstRequeued(d) < USB_XFERS
    /\ FirstRequeued(d) <= FirstFailed(d, fail_at)

LoopRequeues(d, fail_at, busy) ==
    \/ LoopCorrupts(d, fail_at, busy)
    \/ FirstRequeued(d) < LoopStop(d, fail_at, busy)

\* A variant of ReqBuf that gives every request the start of rbuf.
ReqBufShared(i) == 0

\* line 1869: req->buf = prm->rbuf + i * prm->max_psize, as an offset in rbuf.
ReqBuf(i) == i * max_psize

LoopUreq(d, req_len, fail_at, busy) ==
    [i \in Xfers |->
        IF i < LoopStop(d, fail_at, busy) /\ ~ureq[d][i].alloc
        THEN [alloc |-> TRUE, length |-> req_len, buf |-> ReqBuf(i)]
        ELSE ureq[d][i]]

LoopQueue(d, fail_at, busy) ==
    epq[d] \o SelectSeq([k \in 1 .. LoopStop(d, fail_at, busy) |-> k - 1],
                        LAMBDA i : ~InQueue(d, i))

(* ------------------------------------------------------------------ *)
(* afunc_set_alt, afunc_disable                                        *)
(* ------------------------------------------------------------------ *)

\* A variant of set_alt_control that accepts every alt.
set_alt_control_any(alt) ==
    /\ ret' = "OK"
    /\ UNCHANGED << ep0req, opts_lock, rbuf, uevent >>
    /\ UNCHANGED << as_alt, opts, pool, ring, ss, is_pcm_open, hw_ptr, lock,
                    cpl, pacing, p_residue, work, runtime_state, runtime_hw,
                    periods, requeued, pkts, fault >>

\* afunc_set_alt on the control interface (lines 1744-1751).
set_alt_control(alt) ==
    /\ ret' = IF alt # 0 THEN "EINVAL" ELSE "OK"
    /\ UNCHANGED << ep0req, opts_lock, rbuf, uevent >>
    /\ UNCHANGED << as_alt, opts, pool, ring, ss, is_pcm_open, hw_ptr, lock,
                    cpl, pacing, p_residue, work, runtime_state, runtime_hw,
                    periods, requeued, pkts, fault >>

\* afunc_set_alt: neither a known interface nor an alt within the table
\* (lines 1844-1847).
set_alt_invalid ==
    /\ ret' = "EINVAL"
    /\ UNCHANGED << ep0req, opts_lock, rbuf, uevent >>
    /\ UNCHANGED << as_alt, opts, pool, ring, ss, is_pcm_open, hw_ptr, lock,
                    cpl, pacing, p_residue, work, runtime_state, runtime_hw,
                    periods, requeued, pkts, fault >>

\* afunc_set_alt on a streaming interface, alt 0 (lines 1754-1852).
set_alt_zero(d, speed) ==
    LET w == IF d = "p" THEN "p_work" ELSE "c_work"
        pc == PacingFor(opts.p_srate, opts.p_ssize, opts.p_chmask,
                        Interval(speed))
    IN
    /\ StopTriggers(d) => ~lock[d]
    /\ as_alt' = [as_alt EXCEPT ![d] = 0]
    /\ opts' = opts
    /\ IF StopFaults(d)
       THEN /\ fault' = "null_deref"
            /\ UNCHANGED << pool, ss, hw_ptr, cpl, pacing, p_residue, work,
                            runtime_state, pkts, ret, uevent >>
       ELSE /\ fault' = fault
            /\ uevent' = [uevent EXCEPT !.queue = Worklist(@, w)]
            /\ ss' = [ss EXCEPT ![d] = IF StopTriggers(d) THEN "NULL" ELSE @]
            /\ hw_ptr' = [hw_ptr EXCEPT ![d] = IF StopTriggers(d) THEN 0 ELSE @]
            /\ runtime_state' = [runtime_state EXCEPT ![d] =
                                   IF StopTriggers(d) THEN "DISCONNECTED"
                                   ELSE @]
            /\ work' = [work EXCEPT ![w] = QueueWork(w, "ready")]
            /\ IF d = "p"
               THEN /\ p_framesize' = pc.p_framesize
                    /\ p_interval' = pc.p_interval
                    /\ p_pktsize' = pc.p_pktsize
                    /\ p_pktsize_residue' = pc.p_pktsize_residue
                    /\ p_residue' = p_residue_reset(p_residue)
                    /\ pkts' = <<>>
               ELSE UNCHANGED << pacing, p_residue, pkts >>
            /\ ep_enabled' = [ep_enabled EXCEPT ![d] = FreeEpEnabled(d)]
            /\ ureq' = [ureq EXCEPT ![d] = FreeEpUreq(d)]
            /\ epq' = [epq EXCEPT ![d] = FreeEpQueue(d)]
            /\ ep_on' = [ep_on EXCEPT ![d] = FreeEpOn(d)]
            /\ cpl' = [cpl EXCEPT ![d] = FreeEpCpl(d)]
            /\ ret' = "OK"
    /\ UNCHANGED << ep0req, opts_lock, rbuf >>
    /\ UNCHANGED << ring, is_pcm_open, lock, runtime_hw, periods, requeued >>

\* afunc_set_alt on a streaming interface, alt in 1 .. MAX_AS_*_ALT
\* (lines 1754-1877).
set_alt_stream(d, alt, speed, fail_at) ==
    LET w == IF d = "p" THEN "p_work" ELSE "c_work"
        f == AltFormat(alt)
        pc == PacingFor(opts.p_srate, f.ssize, f.chmask, Interval(speed))
        req_len == IF d = "p" THEN pc.p_pktsize ELSE max_psize
    IN
    \E busy \in QueueBusy :
    /\ as_alt' = [as_alt EXCEPT ![d] = alt]
    /\ opts' = IF d = "p"
               THEN [opts EXCEPT !.p_ssize = f.ssize, !.p_chmask = f.chmask,
                                 !.p_sres = f.sres]
               ELSE [opts EXCEPT !.c_ssize = f.ssize, !.c_chmask = f.chmask,
                                 !.c_sres = f.sres]
    /\ work' = [work EXCEPT ![w] = QueueWork(w, "delayed")]
    /\ IF d = "p"
       THEN /\ p_framesize' = pc.p_framesize
            /\ p_interval' = pc.p_interval
            /\ p_pktsize' = pc.p_pktsize
            /\ p_pktsize_residue' = pc.p_pktsize_residue
            /\ p_residue' = p_residue_reset(p_residue)
            /\ pkts' = <<>>
       ELSE UNCHANGED << pacing, p_residue, pkts >>
    /\ ep_enabled' = [ep_enabled EXCEPT ![d] = TRUE]
    /\ ep_on' = [ep_on EXCEPT ![d] = TRUE]
    /\ ureq' = [ureq EXCEPT ![d] = LoopUreq(d, req_len, fail_at, busy)]
    /\ epq' = [epq EXCEPT ![d] = LoopQueue(d, fail_at, busy)]
    /\ requeued' = (requeued \/ LoopRequeues(d, fail_at, busy))
    /\ fault' = IF LoopCorrupts(d, fail_at, busy) THEN "double_queue" ELSE fault
    /\ ret' = IF LoopCorrupts(d, fail_at, busy) THEN ret
              ELSE IF FirstFailed(d, fail_at) < USB_XFERS THEN "ENOMEM"
              ELSE "OK"
    /\ UNCHANGED << ep0req, opts_lock, rbuf, uevent >>
    /\ UNCHANGED << ring, ss, is_pcm_open, hw_ptr, lock, cpl, runtime_state,
                    runtime_hw, periods >>

afunc_set_alt(intf, alt, speed, fail_at) ==
    /\ fault = "none"
    /\ IF intf = ac_intf THEN set_alt_control(alt)
       ELSE IF intf = as_out_intf /\ alt <= MAX_AS_OUT_ALT
       THEN IF alt = 0 THEN set_alt_zero("c", speed)
            ELSE set_alt_stream("c", alt, speed, fail_at)
       ELSE IF intf = as_in_intf /\ alt <= MAX_AS_IN_ALT
       THEN IF alt = 0 THEN set_alt_zero("p", speed)
            ELSE set_alt_stream("p", alt, speed, fail_at)
       ELSE set_alt_invalid

\* afunc_disable from line 1907 on, with the work items left as queued
\* and the worklist as worklist: the playback side first; a fault in its
\* snd_pcm_stop keeps the capture side from being torn down.
afunc_disable_free_eps(queued, worklist) ==
    LET done == [d \in Dir |-> d = "p" \/ ~StopFaults("p")]
        stopped == [d \in Dir |-> done[d] /\ StopTriggers(d)]
    IN
    /\ fault = "none"
    /\ \A d \in Dir : stopped[d] => ~lock[d]
    /\ work' = queued
    /\ uevent' = [uevent EXCEPT !.queue = worklist]
    /\ ep_enabled' = [d \in Dir |-> IF done[d] THEN FreeEpEnabled(d)
                                     ELSE ep_enabled[d]]
    /\ ureq' = [d \in Dir |-> IF done[d] THEN FreeEpUreq(d) ELSE ureq[d]]
    /\ epq' = [d \in Dir |-> IF done[d] THEN FreeEpQueue(d) ELSE epq[d]]
    /\ ep_on' = [d \in Dir |-> IF done[d] THEN FreeEpOn(d) ELSE ep_on[d]]
    /\ cpl' = [d \in Dir |-> IF done[d] THEN FreeEpCpl(d) ELSE cpl[d]]
    /\ as_alt' = [d \in Dir |-> IF done[d] THEN 0 ELSE as_alt[d]]
    /\ ss' = [d \in Dir |-> IF stopped[d] THEN "NULL" ELSE ss[d]]
    /\ hw_ptr' = [d \in Dir |-> IF stopped[d] THEN 0 ELSE hw_ptr[d]]
    /\ runtime_state' = [d \in Dir |-> IF stopped[d] THEN "DISCONNECTED"
                                       ELSE runtime_state[d]]
    /\ fault' = IF \E d \in Dir : done[d] /\ StopFaults(d)
                THEN "null_deref" ELSE fault
    /\ ret' = "OK"
    /\ UNCHANGED << ep0req, opts_lock, rbuf >>
    /\ UNCHANGED << opts, ring, is_pcm_open, lock, pacing, p_residue,
                    runtime_hw, periods, requeued, pkts >>

\* afunc_disable (lines 1900-1916), run with nothing in between.
afunc_disable ==
    afunc_disable_free_eps([work EXCEPT !["disconnect_work"] =
                              QueueWork("disconnect_work", "ready")],
                           Worklist(uevent.queue, "disconnect_work"))

\* line 1906: queue_work(agdev->uevent_wq, &agdev->disconnect_work), the
\* first statement of afunc_disable; the call has not returned.
afunc_disable_queue_work ==
    /\ fault = "none"
    /\ ret # "INPROGRESS"
    /\ work' = [work EXCEPT !["disconnect_work"] =
                  QueueWork("disconnect_work", "ready")]
    /\ uevent' = [uevent EXCEPT
                    !.queue = Worklist(@, "disconnect_work")]
    /\ ret' = "INPROGRESS"
    /\ UNCHANGED << as_alt, opts, pool, ring, ss, is_pcm_open, hw_ptr, lock,
                    cpl, pacing, p_residue, runtime_state, runtime_hw,
                    periods, requeued, pkts, fault, ep0req, opts_lock,
                    rbuf >>

\* lines 1907-1916: the rest of the afunc_disable that queued the work.
afunc_disable_return ==
    /\ ret = "INPROGRESS"
    /\ afunc_disable_free_eps(work, uevent.queue)

(* ------------------------------------------------------------------ *)
(* The ALSA callbacks.  ALSA calls them in the order its PCM state     *)
(* machine allows; runtime_state is that state.                        *)
(* ------------------------------------------------------------------ *)

\* uac2_pcm_open (lines 397-504).
uac2_pcm_open(d) ==
    /\ fault = "none"
    /\ runtime_state[d] = "CLOSED"
    /\ p_residue' = 0
    /\ pkts' = <<>>
    /\ IF as_alt[d] = 0
       THEN /\ ret' = "EPIPE"
            /\ UNCHANGED << lock, is_pcm_open, runtime_state, runtime_hw >>
       ELSE /\ ret' = "OK"
            /\ lock' = [lock EXCEPT ![d] = FALSE]
            /\ is_pcm_open' = [is_pcm_open EXCEPT ![d] = TRUE]
            /\ runtime_state' = [runtime_state EXCEPT ![d] = "OPEN"]
            /\ runtime_hw' = [runtime_hw EXCEPT ![d] =
                 LET rate == IF d = "p" THEN opts.p_srate ELSE opts.c_srate
                     ch == num_channels(IF d = "p" THEN opts.p_chmask
                                        ELSE opts.c_chmask)
                 IN  [rate_min |-> rate, rate_max |-> rate,
                      channels_min |-> ch, channels_max |-> ch]]
    /\ UNCHANGED << ep0req, opts_lock, rbuf, uevent >>
    /\ UNCHANGED << as_alt, opts, pool, ring, ss, hw_ptr, cpl, pacing, work,
                    periods, requeued, fault >>

\* uac2_pcm_close (lines 512-521).
uac2_pcm_close(d) ==
    /\ fault = "none"
    /\ runtime_state[d] \in {"OPEN", "DISCONNECTED"}
    /\ dma_area[d] = "NULL"
    /\ is_pcm_open' = [is_pcm_open EXCEPT ![d] = FALSE]
    /\ runtime_state' = [runtime_state EXCEPT ![d] = "CLOSED"]
    /\ ret' = "OK"
    /\ UNCHANGED << ep0req, opts_lock, rbuf, uevent >>
    /\ UNCHANGED << as_alt, opts, pool, ring, ss, hw_ptr, lock, cpl, pacing,
                    p_residue, work, runtime_hw, periods, requeued, pkts,
                    fault >>

\* uac2_pcm_hw_params (lines 357-378); ok is whether
\* snd_pcm_lib_malloc_pages succeeded.
uac2_pcm_hw_params(d, g, ok) ==
    /\ fault = "none"
    /\ runtime_state[d] \in {"OPEN", "SETUP"}
    /\ IF ok
       THEN /\ dma_bytes' = [dma_bytes EXCEPT ![d] = g.dma_bytes]
            /\ dma_area' = [dma_area EXCEPT ![d] = "ring"]
            /\ period_size' = [period_size EXCEPT ![d] = g.period_size]
            /\ runtime_state' = [runtime_state EXCEPT ![d] = "SETUP"]
            /\ ret' = "OK"
       ELSE /\ UNCHANGED << ring, runtime_state >>
            /\ ret' = "ENOMEM"
    /\ UNCHANGED << ep0req, opts_lock, rbuf, uevent >>
    /\ UNCHANGED << as_alt, opts, pool, ss, is_pcm_open, hw_ptr, lock, cpl,
                    pacing, p_residue, work, runtime_hw, periods, requeued,
                    pkts, fault >>

\* uac2_pcm_hw_free (lines 380-395).
uac2_pcm_hw_free(d) ==
    /\ fault = "none"
    /\ runtime_state[d] \in {"SETUP", "DISCONNECTED"}
    /\ dma_area[d] # "NULL"
    /\ dma_area' = [dma_area EXCEPT ![d] = "NULL"]
    /\ dma_bytes' = [dma_bytes EXCEPT ![d] = 0]
    /\ period_size' = [period_size EXCEPT ![d] = 0]
    /\ runtime_state' = [runtime_state EXCEPT ![d] =
                           IF @ = "SETUP" THEN "OPEN" ELSE @]
    /\ ret' = "OK"
    /\ UNCHANGED << ep0req, opts_lock, rbuf, uevent >>
    /\ UNCHANGED << as_alt, opts, pool, ss, is_pcm_open, hw_ptr, lock, cpl,
                    pacing, p_residue, work, runtime_hw, periods, requeued,
                    pkts, fault >>

\* bytes_to_frames(runtime, size): size * 8 / runtime->frame_bits, for the
\* format and channel count that uac2_pcm_open allows to direction d.
bytes_to_frames(d, size) ==
    LET sample_bits == 8 * (IF d = "p" THEN opts.p_ssize ELSE opts.c_ssize)
        frame_bits == sample_bits * num_channels(IF d = "p" THEN opts.p_chmask
                                                 ELSE opts.c_chmask)
    IN  (size * 8) \div frame_bits

\* uac2_pcm_pointer (lines 343-355): what the pointer query returns; it
\* reads prm->hw_ptr without taking the lock.
uac2_pcm_pointer(d) == bytes_to_frames(d, hw_ptr[d])

\* The states in which ALSA issues each trigger command, and the state a
\* successful trigger leaves.
TriggerFrom(cmd) ==
    CASE cmd = "START" -> {"SETUP"}
      [] cmd = "STOP" -> {"RUNNING"}
      [] cmd = "SUSPEND" -> {"RUNNING"}
      [] cmd = "RESUME" -> {"SUSPENDED"}
      [] cmd = "PAUSE_PUSH" -> {"RUNNING"}

TriggerTo(cmd) ==
    CASE cmd = "START" -> "RUNNING"
      [] cmd = "STOP" -> "SETUP"
      [] cmd = "SUSPEND" -> "SUSPENDED"
      [] cmd = "RESUME" -> "RUNNING"
      [] cmd = "PAUSE_PUSH" -> "RUNNING"

\* The substream binding after the switch of lines 322-333.
TriggerSs(d, cmd) ==
    IF cmd \in {"START", "RESUME"} THEN "substream"
    ELSE IF cmd \in {"STOP", "SUSPEND"} THEN "NULL"
    ELSE ss[d]

\* A variant of MemsetSlots that clears one slot, max_psize bytes.
MemsetSlotsOne == {s \in Xfers : s * max_psize < max_psize}

\* line 339: memset(prm->rbuf, 0, prm->max_psize * USB_XFERS), the slots
\* it clears.
MemsetSlots == {s \in Xfers : s * max_psize < max_psize * USB_XFERS}

\* uac2_pcm_trigger (lines 304-342).
uac2_pcm_trigger(d, cmd) ==
    /\ fault = "none"
    /\ runtime_state[d] \in TriggerFrom(cmd)
    /\ ~lock[d]
    /\ hw_ptr' = [hw_ptr EXCEPT ![d] = 0]
    /\ ss' = [ss EXCEPT ![d] = TriggerSs(d, cmd)]
    /\ runtime_state' = [runtime_state EXCEPT ![d] = TriggerTo(cmd)]
    /\ ret' = IF cmd \in {"START", "RESUME", "STOP", "SUSPEND"}
              THEN "OK" ELSE "EINVAL"
    /\ rbuf' = IF d = "p" /\ TriggerSs(d, cmd) = "NULL"
               THEN [rbuf EXCEPT ![d] =
                       [s \in Xfers |-> @[s] /\ s \notin MemsetSlots]]
               ELSE rbuf
    /\ UNCHANGED << ep0req, opts_lock, uevent >>
    /\ UNCHANGED << as_alt, opts, pool, ring, is_pcm_open, lock, cpl, pacing,
                    p_residue, work, runtime_hw, periods, requeued, pkts,
                    fault >>

(* ------------------------------------------------------------------ *)
(* SET CUR of the sampling frequency: the data stage completes         *)
(* ------------------------------------------------------------------ *)

\* A variant of set_srate_complete that recomputes the packet size of a
\* playback stream from the rate it commits.
set_srate_complete_repaced(d, buf) ==
    LET new == IF buf \in clk_frequencies /\ d = "p" THEN buf
               ELSE opts.p_srate
        pc == PacingFor(new, opts.p_ssize, opts.p_chmask, p_interval)
    IN
    /\ fault = "none"
    /\ opts' = IF buf \in clk_frequencies
               THEN IF d = "p" THEN [opts EXCEPT !.p_srate = buf]
                    ELSE [opts EXCEPT !.c_srate = buf]
               ELSE opts
    /\ p_pktsize' = IF as_alt["p"] # 0 THEN pc.p_pktsize ELSE p_pktsize
    /\ p_pktsize_residue' = IF as_alt["p"] # 0 THEN pc.p_pktsize_residue
                            ELSE p_pktsize_residue
    /\ ret' = "OK"
    /\ UNCHANGED << as_alt, pool, ring, ss, is_pcm_open, hw_ptr, lock, cpl,
                    p_interval, p_framesize, p_residue, work, runtime_state,
                    runtime_hw, periods, requeued, pkts, fault, opts_lock,
                    rbuf, uevent >>

\* set_p_srate_complete / set_c_srate_complete (lines 2017-2053).
set_srate_complete(d, buf) ==
    /\ fault = "none"
    /\ opts' = IF buf \in clk_frequencies
               THEN IF d = "p" THEN [opts EXCEPT !.p_srate = buf]
                    ELSE [opts EXCEPT !.c_srate = buf]
               ELSE opts
    /\ ret' = "OK"
    /\ UNCHANGED << as_alt, pool, ring, ss, is_pcm_open, hw_ptr, lock, cpl,
                    pacing, p_residue, work, runtime_state, runtime_hw,
                    periods, requeued, pkts, fault, opts_lock, rbuf, uevent >>

(* ------------------------------------------------------------------ *)
(* The work items of uevent_wq, an ordered workqueue: one item runs at *)
(* a time.  A pending item is "delayed" while its timer runs, "timed"  *)
(* once the timer has put it on the queue, "ready" when it was queued  *)
(* with no delay.                                                      *)
(* ------------------------------------------------------------------ *)

\* The timer of a delayed work item expires, UAC2_UEVENT_DELAY (line 1726)
\* after queue_delayed_work started it.
delayed_work_timer_fn(w) ==
    /\ fault = "none"
    /\ work[w] = "delayed"
    /\ work' = [work EXCEPT ![w] = "timed"]
    /\ uevent' = [uevent EXCEPT !.queue = Append(@, w)]
    /\ UNCHANGED << as_alt, opts, pool, ring, ss, is_pcm_open, hw_ptr, lock,
                    cpl, pacing, p_residue, runtime_state, runtime_hw,
                    periods, requeued, pkts, ret, fault, ep0req, opts_lock,
                    rbuf >>

\* The strings of the uevents (lines 1642, 1658-1659, 1695-1696).
Connected(d) ==
    IF d = "p" THEN "HOST_PLAYBACK_STREAM_PARAMS_CHANGED"
    ELSE "HOST_CAPTURE_STREAM_PARAMS_CHANGED"

Disconnected(d) ==
    IF d = "p" THEN "HOST_PLAYBACK_STREAM_CLOSED"
    ELSE "HOST_CAPTURE_STREAM_CLOSED"

UeventWork(d) == IF d = "p" THEN "p_work" ELSE "c_work"

\* A variant of uevent_work without the branch that sends the disconnect
\* that was missed: an active alt always reports a connect.
uevent_work_no_missed(d) ==
    LET w == UeventWork(d)
        prv == uevent.is_prv_connect[d]
    IN
    /\ fault = "none"
    /\ work[w] \in {"ready", "timed"}
    /\ uevent.running = NotRunning
    /\ uevent.queue # <<>> /\ Head(uevent.queue) = w
    /\ work' = [work EXCEPT ![w] = "idle"]
    /\ uevent' =
        LET taken == [uevent EXCEPT !.queue = Tail(@)] IN
          IF as_alt[d] # 0
          THEN [taken EXCEPT
                  !.sent = Append(@, Connected(d)),
                  !.is_prv_connect[d] = TRUE]
          ELSE IF prv
               THEN [taken EXCEPT
                       !.sent = Append(@, Disconnected(d)),
                       !.is_prv_connect[d] = FALSE]
               ELSE taken
    /\ UNCHANGED << as_alt, opts, pool, ring, ss, is_pcm_open, hw_ptr, lock,
                    cpl, pacing, p_residue, runtime_state, runtime_hw,
                    periods, requeued, pkts, ret, fault, ep0req, opts_lock,
                    rbuf >>

\* uevent_p_work / uevent_c_work (lines 1652-1724) up to its return or its
\* msleep(20): the worker takes the item off the queue and runs it.
uevent_work(d) ==
    LET w == UeventWork(d)
        prv == uevent.is_prv_connect[d]
    IN
    /\ fault = "none"
    /\ work[w] \in {"ready", "timed"}
    /\ uevent.running = NotRunning
    /\ uevent.queue # <<>> /\ Head(uevent.queue) = w
    /\ work' = [work EXCEPT ![w] = "idle"]
    /\ uevent' =
        LET taken == [uevent EXCEPT !.queue = Tail(@)] IN
          IF as_alt[d] # 0
          THEN IF prv
               THEN [taken EXCEPT
                       !.sent = Append(@, Disconnected(d)),
                       !.is_prv_connect[d] = FALSE,
                       !.running = [w |-> w, timed |-> work[w] = "timed"]]
               ELSE [taken EXCEPT
                       !.sent = Append(@, Connected(d)),
                       !.is_prv_connect[d] = TRUE]
          ELSE IF prv
               THEN [taken EXCEPT
                       !.sent = Append(@, Disconnected(d)),
                       !.is_prv_connect[d] = FALSE]
               ELSE taken
    /\ UNCHANGED << as_alt, opts, pool, ring, ss, is_pcm_open, hw_ptr, lock,
                    cpl, pacing, p_residue, runtime_state, runtime_hw,
                    periods, requeued, pkts, ret, fault, ep0req, opts_lock,
                    rbuf >>

\* uevent_p_work / uevent_c_work after the msleep(20) of lines 1671, 1708:
\* the alt setting is read again.
uevent_work_wake(d) ==
    /\ fault = "none"
    /\ uevent.running.w = UeventWork(d)
    /\ uevent' =
          IF as_alt[d] # 0
          THEN [uevent EXCEPT
                  !.sent = Append(@, Connected(d)),
                  !.is_prv_connect[d] = TRUE,
                  !.running = NotRunning]
          ELSE [uevent EXCEPT !.running = NotRunning]
    /\ UNCHANGED << as_alt, opts, pool, ring, ss, is_pcm_open, hw_ptr, lock,
                    cpl, pacing, p_residue, work, runtime_state, runtime_hw,
                    periods, requeued, pkts, ret, fault, ep0req, opts_lock,
                    rbuf >>

\* cable_disconnect_work (lines 1637-1650).
cable_disconnect_work ==
    /\ fault = "none"
    /\ work["disconnect_work"] = "ready"
    /\ uevent.running = NotRunning
    /\ uevent.queue # <<>> /\ Head(uevent.queue) = "disconnect_work"
    /\ work' = [w \in DOMAIN work |->
                  IF w = "disconnect_work" THEN "idle"
                  ELSE QueueWork(w, "ready")]
    /\ uevent' = [uevent EXCEPT
                    !.queue = Worklist(Worklist(Tail(@), "c_work"), "p_work"),
                    !.sent = Append(@, "HOST_CABLE_DISCONNECTED")]
    /\ UNCHANGED << as_alt, opts, pool, ring, ss, is_pcm_open, hw_ptr, lock,
                    cpl, pacing, p_residue, runtime_state, runtime_hw,
                    periods, requeued, pkts, ret, fault, ep0req, opts_lock,
                    rbuf >>

(* ------------------------------------------------------------------ *)
(* configfs attributes (UAC2_ATTRIBUTE)                                *)
(* ------------------------------------------------------------------ *)

\* lines 2171, 2184: mutex_lock(&opts->lock) of a show or a store.
f_uac2_opts_attr_lock(call) ==
    /\ fault = "none"
    /\ opts_lock = "none"
    /\ opts_lock' = call
    /\ UNCHANGED << as_alt, opts, pool, ring, ss, is_pcm_open, hw_ptr, lock,
                    cpl, pacing, p_residue, work, runtime_state, runtime_hw,
                    periods, requeued, pkts, ret, fault, ep0req, rbuf, uevent >>

\* lines 2172-2175: the attribute is printed and the mutex released.
f_uac2_opts_show ==
    /\ fault = "none"
    /\ opts_lock = "show"
    /\ opts_lock' = "none"
    /\ UNCHANGED << as_alt, opts, pool, ring, ss, is_pcm_open, hw_ptr, lock,
                    cpl, pacing, p_residue, work, runtime_state, runtime_hw,
                    periods, requeued, pkts, ret, fault, ep0req, rbuf, uevent >>

\* lines 2185-2199: opts->refcnt was raised by afunc_alloc (line 2314), so
\* the store ends with -EBUSY and writes nothing.
f_uac2_opts_store ==
    /\ fault = "none"
    /\ opts_lock = "store"
    /\ opts_lock' = "none"
    /\ ret' = "EBUSY"
    /\ UNCHANGED << as_alt, opts, pool, ring, ss, is_pcm_open, hw_ptr, lock,
                    cpl, pacing, p_residue, work, runtime_state, runtime_hw,
                    periods, requeued, pkts, fault, ep0req, rbuf, uevent >>

(* ------------------------------------------------------------------ *)
(* Class requests on endpoint 0                                        *)
(* ------------------------------------------------------------------ *)

\* cpu_to_le16, cpu_to_le32: the bytes of a value in memory order.
LE16(v) == << v % 256, (v \div 256) % 256 >>

LE32(v) ==
    << v % 256, (v \div 256) % 256, (v \div 65536) % 256,
       (v \div 16777216) % 256 >>

\* u32 *buf = req->buf; *buf: the four bytes at the start of the buffer.
U32At(buf) == buf[1] + 256 * buf[2] + 65536 * buf[3] + 16777216 * buf[4]

\* memcpy(req->buf, src, n): the first n bytes are replaced.
memcpy(buf, src, n) ==
    [k \in 1 .. Len(buf) |-> IF k <= n /\ k <= Len(src) THEN src[k] ELSE buf[k]]

\* A variant of CurImage that answers with the rate of the other direction.
CurImageSwapped(entity_id, junk) ==
    IF entity_id = USB_IN_CLK_ID THEN LE32(opts.c_srate)
    ELSE IF entity_id = USB_OUT_CLK_ID THEN LE32(opts.p_srate)
    ELSE [k \in 1 .. SizeofCur |-> junk]

\* struct cntrl_cur_lay3 c on the stack of in_rq_cur (lines 1940-1945):
\* dCUR is assigned for the two clock ids only.
CurImage(entity_id, junk) ==
    IF entity_id = USB_IN_CLK_ID THEN LE32(opts.p_srate)
    ELSE IF entity_id = USB_OUT_CLK_ID THEN LE32(opts.c_srate)
    ELSE [k \in 1 .. SizeofCur |-> junk]

\* struct CNTRL_RANGE_LAY3(CLK_FREQ_ARR_SIZE) r on the stack of in_rq_range
\* (lines 1459-1466, 1973, 1983-1992): dRangeAttrs is never assigned.
RangeImage(dMIN, junk) ==
    LE16(1) \o [k \in 1 .. 4 * 3 * CLK_FREQ_ARR_SIZE |-> junk]
            \o LE32(dMIN) \o LE32(dMIN) \o LE32(0)

\* What a handler hands back to afunc_setup: its return value, and what it
\* left in req->buf and req->complete.
Handled(value, buf, complete) ==
    [value |-> value, buf |-> buf, complete |-> complete]

\* in_rq_cur (lines 1918-1959).
in_rq_cur(req, cr, junk) ==
    IF cr.cs = UAC2_CS_CONTROL_SAM_FREQ
    THEN LET value == Min(cr.w_length, SizeofCur) IN
         Handled(value, memcpy(req.buf, CurImage(cr.entity_id, junk), value),
                 req.complete)
    ELSE IF cr.cs = UAC2_CS_CONTROL_CLOCK_VALID
    THEN Handled(Min(cr.w_length, 1), memcpy(req.buf, << 1 >>, 1),
                 req.complete)
    ELSE Handled(EOPNOTSUPP, req.buf, req.complete)

\* in_rq_range (lines 1961-2004).
in_rq_range(req, cr, junk) ==
    IF /\ cr.cs = UAC2_CS_CONTROL_SAM_FREQ
       /\ cr.entity_id \in {USB_IN_CLK_ID, USB_OUT_CLK_ID}
    THEN LET dMIN == IF cr.entity_id = USB_IN_CLK_ID THEN opts.p_srate
                     ELSE opts.c_srate
             value == Min(cr.w_length, SizeofRange)
         IN  Handled(value, memcpy(req.buf, RangeImage(dMIN, junk), value),
                     req.complete)
    ELSE Handled(EOPNOTSUPP, req.buf, req.complete)

\* ac_rq_in (lines 2006-2015).
ac_rq_in(req, cr, junk) ==
    IF cr.bRequest = UAC2_CS_CUR THEN in_rq_cur(req, cr, junk)
    ELSE IF cr.bRequest = UAC2_CS_RANGE THEN in_rq_range(req, cr, junk)
    ELSE Handled(EOPNOTSUPP, req.buf, req.complete)

\* out_rq_cur (lines 2055-2086): the length is returned for every entity.
out_rq_cur(req, cr) ==
    IF cr.cs = UAC2_CS_CONTROL_SAM_FREQ
    THEN Handled(cr.w_length, req.buf,
                 IF cr.entity_id = USB_OUT_CLK_ID THEN "set_c_srate_complete"
                 ELSE IF cr.entity_id = USB_IN_CLK_ID
                 THEN "set_p_srate_complete"
                 ELSE req.complete)
    ELSE Handled(EOPNOTSUPP, req.buf, req.complete)

\* setup_rq_inf (lines 2088-2108).
setup_rq_inf(req, cr, junk) ==
    IF cr.intf # ac_intf THEN Handled(EOPNOTSUPP, req.buf, req.complete)
    ELSE IF cr.dir = "in" THEN ac_rq_in(req, cr, junk)
    ELSE IF cr.bRequest = UAC2_CS_CUR THEN out_rq_cur(req, cr)
    ELSE Handled(EOPNOTSUPP, req.buf, req.complete)

\* composite_setup re-initialises the request of endpoint 0 before it hands
\* a request to the function.
composite_setup(req) ==
    [req EXCEPT !.zero = FALSE, !.length = 0,
                !.complete = "composite_setup_complete"]

\* afunc_setup (lines 2110-2141), called by composite_setup with request cr;
\* junk is what the handler finds on its stack.
afunc_setup(cr, junk) ==
    LET req == composite_setup(ep0req)
        h == IF cr.type # "CLASS"
             THEN Handled(EOPNOTSUPP, req.buf, req.complete)
             ELSE IF cr.recip = "INTERFACE" THEN setup_rq_inf(req, cr, junk)
             ELSE Handled(EOPNOTSUPP, req.buf, req.complete)
    IN
    /\ fault = "none"
    /\ ~ep0req.queued
    /\ ep0req' = IF h.value >= 0
                 THEN [buf |-> h.buf, length |-> h.value,
                       zero |-> (h.value < cr.w_length),
                       complete |-> h.complete, queued |-> TRUE,
                       dir |-> cr.dir]
                 ELSE [req EXCEPT !.buf = h.buf, !.complete = h.complete]
    /\ ret' = IF h.value >= 0 THEN "OK" ELSE "EOPNOTSUPP"
    /\ UNCHANGED << as_alt, opts, pool, ring, ss, is_pcm_open, hw_ptr, lock,
                    cpl, pacing, p_residue, work, runtime_state, runtime_hw,
                    periods, requeued, pkts, fault, opts_lock, rbuf, uevent >>

\* What the host sends in the data stage of a request of length n that
\* carries val: the bytes of val, cut or padded with zeros to n bytes.
Payload(val, n) == [k \in 1 .. n |-> IF k <= 4 THEN LE32(val)[k] ELSE 0]

\* The transfer on endpoint 0 is over: for an OUT request the req->length
\* bytes the host sent are in req->buf, and req->complete is called.
ep0_complete(val) ==
    LET n == Min(ep0req.length, Ep0BufLen)
        buf == IF ep0req.dir = "out"
               THEN memcpy(ep0req.buf, Payload(val, n), n)
               ELSE ep0req.buf
    IN
    /\ ep0req.queued
    /\ ep0req' = [ep0req EXCEPT !.buf = buf, !.queued = FALSE]
    /\ IF ep0req.complete = "set_p_srate_complete"
       THEN set_srate_complete("p", U32At(buf))
       ELSE IF ep0req.complete = "set_c_srate_complete"
       THEN set_srate_complete("c", U32At(buf))
       ELSE /\ fault = "none"
            /\ UNCHANGED << as_alt, opts, pool, ring, ss, is_pcm_open, hw_ptr,
                            lock, cpl, pacing, p_residue, work, runtime_state,
                            runtime_hw, periods, requeued, pkts, ret, fault,
                            opts_lock, rbuf, uevent >>

\* The completion in progress on direction d executes its next statement.
agdev_iso_complete(d) ==
    CASE cpl[d].pc = "check" -> agdev_iso_check(d)
      [] cpl[d].pc = "read_ss" -> agdev_iso_read_ss(d)
      [] cpl[d].pc = "lock" -> agdev_iso_lock(d)
      [] cpl[d].pc = "tick" -> agdev_iso_tick
      [] cpl[d].pc = "test" -> agdev_iso_test
      [] cpl[d].pc = "carry" -> agdev_iso_carry
      [] cpl[d].pc = "account" -> agdev_iso_account(d)
      [] cpl[d].pc = "copy" -> agdev_iso_copy(d)
      [] cpl[d].pc = "exit" -> agdev_iso_exit(d)
      [] OTHER -> FALSE

(* ------------------------------------------------------------------ *)
(* Specifications                                                      *)
(* ------------------------------------------------------------------ *)

\* Direction d has not been touched since afunc_bind, or was put back.
Pristine(d) ==
    /\ as_alt[d] = 0
    /\ ~ep_enabled[d]
    /\ runtime_state[d] = "CLOSED"
    /\ cpl[d].pc = "idle"
    /\ work[IF d = "p" THEN "p_work" ELSE "c_work"] = "idle"

\* Spec exercises one direction at a time: a call on direction d is made
\* while the other direction is pristine.
Solo(d) == \A o \in Dir \ {d} : Pristine(o)

IntfDir(intf) == IF intf = as_in_intf THEN "p" ELSE "c"

SetAlt ==
    \E intf \in {as_out_intf, as_in_intf}, alt \in {0, 1} :
        /\ Solo(IntfDir(intf))
        /\ afunc_set_alt(intf, alt, "FULL", USB_XFERS)
        /\ UNCHANGED ncpl

Disable == afunc_disable /\ UNCHANGED ncpl

PcmOpen == \E d \in Dir : Solo(d) /\ uac2_pcm_open(d) /\ UNCHANGED ncpl

PcmClose == \E d \in Dir : uac2_pcm_close(d) /\ UNCHANGED ncpl

PcmHwParams ==
    \E d \in Dir, g \in Geometries, ok \in BOOLEAN :
        uac2_pcm_hw_params(d, g, ok) /\ UNCHANGED ncpl

PcmHwFree == \E d \in Dir : uac2_pcm_hw_free(d) /\ UNCHANGED ncpl

PcmTrigger ==
    \E d \in Dir, cmd \in TriggerCmds :
        uac2_pcm_trigger(d, cmd) /\ UNCHANGED ncpl

\* req->actual of the completion: what was sent (IN), what arrived (OUT)
Actuals(d) == IF d = "p" THEN {ureq[d][Head(epq[d])].length} ELSE CaptureLens

Begin ==
    \E d \in Dir, st \in Statuses :
        /\ ncpl < MaxCompletions
        /\ epq[d] # <<>>
        /\ \E act \in Actuals(d) : agdev_iso_begin(d, st, act)
        /\ ncpl' = ncpl + 1

Complete == \E d \in Dir : agdev_iso_complete(d) /\ UNCHANGED ncpl

Next ==
    \/ SetAlt
    \/ Disable
    \/ PcmOpen
    \/ PcmClose
    \/ PcmHwParams
    \/ PcmHwFree
    \/ PcmTrigger
    \/ Begin
    \/ Complete

Spec == Init /\ [][Next]_vars

(* ------------------------------------------------------------------ *)
(* SpecStream: one stream from activation on, its completions running  *)
(* one after the other with no control call in between.                *)
(* ------------------------------------------------------------------ *)

\* SET CUR payloads: the two supported rates and one that is not
SetCurRates == {44100, 48000, 96000}

\* rates written to p_srate through configfs before the function is bound:
\* the default, and one whose packets are capped at max_psize
ConfigRates == {UAC2_DEF_SRATE, 192000}

InitStream == \E srate \in ConfigRates : InitWith(srate, 0)

StreamRate ==
    \E buf \in SetCurRates :
        /\ \A d \in Dir : Pristine(d)
        /\ set_srate_complete("p", buf)
        /\ UNCHANGED << ep0req, ncpl >>

StreamActivate ==
    \E intf \in {as_out_intf, as_in_intf}, alt \in 1 .. MAX_AS_IN_ALT,
       speed \in Speeds :
        /\ \A d \in Dir : Pristine(d)
        /\ afunc_set_alt(intf, alt, speed, USB_XFERS)
        /\ UNCHANGED ncpl

StreamOpen ==
    \E d \in Dir : as_alt[d] # 0 /\ uac2_pcm_open(d) /\ UNCHANGED ncpl

StreamHwParams ==
    \E d \in Dir, g \in Geometries :
        /\ runtime_state[d] = "OPEN"
        /\ uac2_pcm_hw_params(d, g, TRUE)
        /\ UNCHANGED ncpl

StreamStart == \E d \in Dir : uac2_pcm_trigger(d, "START") /\ UNCHANGED ncpl

StreamBegin ==
    \E d \in Dir :
        /\ ncpl < (IF d = "p" THEN MaxTicks ELSE MaxCaptures)
        /\ runtime_state[d] = "RUNNING"
        /\ epq[d] # <<>>
        /\ \E act \in Actuals(d) : agdev_iso_begin(d, "OK", act)
        /\ ncpl' = ncpl + 1

StreamComplete == \E d \in Dir : agdev_iso_complete(d) /\ UNCHANGED ncpl

\* The host deselects the alt of a running stream, between two completions.
StreamDeactivate ==
    \E d \in Dir, speed \in Speeds :
        /\ runtime_state[d] = "RUNNING"
        /\ cpl[d].pc = "idle"
        /\ afunc_set_alt(IF d = "p" THEN as_in_intf ELSE as_out_intf, 0,
                         speed, USB_XFERS)
        /\ UNCHANGED ncpl

\* The host selects again the alt that was deselected.
StreamReactivate ==
    \E d \in Dir, alt \in 1 .. MAX_AS_IN_ALT, speed \in Speeds :
        /\ runtime_state[d] = "DISCONNECTED"
        /\ as_alt[d] = 0
        /\ AltFormat(alt).ssize = (IF d = "p" THEN opts.p_ssize
                                   ELSE opts.c_ssize)
        /\ AltFormat(alt).chmask = (IF d = "p" THEN opts.p_chmask
                                    ELSE opts.c_chmask)
        /\ afunc_set_alt(IF d = "p" THEN as_in_intf ELSE as_out_intf, alt,
                         speed, USB_XFERS)
        /\ UNCHANGED ncpl

NextStream ==
    \/ StreamRate
    \/ StreamActivate
    \/ StreamDeactivate
    \/ StreamReactivate
    \/ StreamOpen
    \/ StreamHwParams
    \/ StreamStart
    \/ StreamBegin
    \/ StreamComplete

SpecStream == InitStream /\ [][NextStream]_vars

(* ------------------------------------------------------------------ *)
(* SpecTrig: one stream started, stopped, suspended and resumed while  *)
(* its completions run statement by statement, and while the PCM       *)
(* device of the other direction is opened.                            *)
(* ------------------------------------------------------------------ *)

\* p_srate as configfs left it: one rate with a per-tick residue, one
\* without
TrigRates == {44100, UAC2_DEF_SRATE}

InitTrig == \E srate \in TrigRates : InitWith(srate, 0)

\* completions begun that SpecTrig explores
MaxTrigTicks == 2

TrigActivate ==
    \E intf \in {as_out_intf, as_in_intf} :
        /\ \A d \in Dir : Pristine(d)
        /\ afunc_set_alt(intf, 2, "HIGH", USB_XFERS)
        /\ UNCHANGED ncpl

TrigOpen == \E d \in Dir : uac2_pcm_open(d) /\ UNCHANGED ncpl

TrigHwParams ==
    \E d \in Dir :
        /\ runtime_state[d] = "OPEN"
        /\ uac2_pcm_hw_params(d, [dma_bytes |-> 2048, period_size |-> 512],
                              TRUE)
        /\ UNCHANGED ncpl

TrigTrigger ==
    \E d \in Dir, cmd \in TriggerCmds :
        uac2_pcm_trigger(d, cmd) /\ UNCHANGED ncpl

TrigBegin ==
    \E d \in Dir, st \in Statuses :
        /\ ncpl < MaxTrigTicks
        /\ epq[d] # <<>>
        /\ \E act \in Actuals(d) : agdev_iso_begin(d, st, act)
        /\ ncpl' = ncpl + 1

TrigComplete == \E d \in Dir : agdev_iso_complete(d) /\ UNCHANGED ncpl

NextTrig ==
    \/ TrigActivate
    \/ TrigOpen
    \/ TrigHwParams
    \/ TrigTrigger
    \/ TrigBegin
    \/ TrigComplete

SpecTrig == InitTrig /\ [][NextTrig]_vars

(* ------------------------------------------------------------------ *)
(* SpecEvt: the host selects and deselects the streaming alts and the  *)
(* cable is pulled, while the timers and the worker of uevent_wq run.  *)
(* ------------------------------------------------------------------ *)

\* calls of afunc_set_alt and afunc_disable that SpecEvt explores
MaxAltCalls == 3

\* ncpl counts the calls of afunc_set_alt and afunc_disable.
EvtSetAlt ==
    \E intf \in {as_out_intf, as_in_intf}, alt \in {0, 1} :
        /\ ncpl < MaxAltCalls
        /\ ret # "INPROGRESS"
        /\ afunc_set_alt(intf, alt, "HIGH", USB_XFERS)
        /\ ncpl' = ncpl + 1

EvtDisable ==
    /\ ncpl < MaxAltCalls
    /\ afunc_disable_queue_work
    /\ ncpl' = ncpl + 1

EvtDisableReturn == afunc_disable_return /\ UNCHANGED ncpl

EvtTimer ==
    \E w \in {"p_work", "c_work"} :
        delayed_work_timer_fn(w) /\ UNCHANGED ncpl

EvtWork == \E d \in Dir : uevent_work(d) /\ UNCHANGED ncpl

EvtWake == \E d \in Dir : uevent_work_wake(d) /\ UNCHANGED ncpl

EvtCable == cable_disconnect_work /\ UNCHANGED ncpl

NextEvt ==
    \/ EvtSetAlt
    \/ EvtDisable
    \/ EvtDisableReturn
    \/ EvtTimer
    \/ EvtWork
    \/ EvtWake
    \/ EvtCable

SpecEvt == Init /\ [][NextEvt]_vars

(* ------------------------------------------------------------------ *)
(* SpecPace: one playback stream whose completions run statement by    *)
(* statement; the host sets the rate of the clock between two of them *)
(* and, from the last one on, selects the alt of the stream-in         *)
(* interface again.                                                    *)
(* ------------------------------------------------------------------ *)

\* p_srate as configfs left it: a rate that carries a frame every fifth
\* tick, and a rate whose packet is a byte short of max_psize
PaceRates == {88200, 255749}

InitPace == \E srate \in PaceRates : InitWith(srate, 0)

\* completions begun that SpecPace explores
MaxPaceTicks == 5

PaceSetAlt ==
    \E alt \in {0, 2} :
        /\ as_alt["p"] = 0 \/ ncpl = MaxPaceTicks
        /\ afunc_set_alt(as_in_intf, alt, "HIGH", USB_XFERS)
        /\ UNCHANGED ncpl

PaceRate ==
    \E buf \in clk_frequencies :
        /\ cpl["p"].pc = "idle"
        /\ set_srate_complete("p", buf)
        /\ UNCHANGED << ep0req, ncpl >>

PaceOpen == as_alt["p"] # 0 /\ uac2_pcm_open("p") /\ UNCHANGED ncpl

PaceHwParams ==
    /\ runtime_state["p"] = "OPEN"
    /\ uac2_pcm_hw_params("p", [dma_bytes |-> 4096, period_size |-> 1024],
                          TRUE)
    /\ UNCHANGED ncpl

PaceStart == uac2_pcm_trigger("p", "START") /\ UNCHANGED ncpl

PaceBegin ==
    /\ ncpl < MaxPaceTicks
    /\ epq["p"] # <<>>
    /\ agdev_iso_begin("p", "OK", ureq["p"][Head(epq["p"])].length)
    /\ ncpl' = ncpl + 1

PaceComplete == agdev_iso_complete("p") /\ UNCHANGED ncpl

NextPace ==
    \/ PaceSetAlt
    \/ PaceRate
    \/ PaceOpen
    \/ PaceHwParams
    \/ PaceStart
    \/ PaceBegin
    \/ PaceComplete

SpecPace == InitPace /\ [][NextPace]_vars

(* ------------------------------------------------------------------ *)
(* SpecOpen: the PCM device of one direction at a time opened and      *)
(* closed while the host selects alt settings and sets the rate of     *)
(* either clock.                                                       *)
(* ------------------------------------------------------------------ *)

\* alt settings the host selects: off, mono and stereo
OpenAlts == {0, 1, 2}

OpenSetAlt ==
    \E intf \in {as_out_intf, as_in_intf}, alt \in OpenAlts :
        /\ Solo(IntfDir(intf))
        /\ as_alt[IntfDir(intf)] = 0 \/ alt = 0
        /\ afunc_set_alt(intf, alt, "HIGH", USB_XFERS)
        /\ UNCHANGED ncpl

OpenRate ==
    \E d \in Dir, buf \in SetCurRates :
        /\ set_srate_complete(d, buf)
        /\ UNCHANGED << ep0req, ncpl >>

OpenPcm == \E d \in Dir : Solo(d) /\ uac2_pcm_open(d) /\ UNCHANGED ncpl

OpenClose == \E d \in Dir : uac2_pcm_close(d) /\ UNCHANGED ncpl

NextOpen ==
    \/ OpenSetAlt
    \/ OpenRate
    \/ OpenPcm
    \/ OpenClose

SpecOpen == InitStream /\ [][NextOpen]_vars

(* ------------------------------------------------------------------ *)
(* SpecAlt: the alt-setting state machine and the descriptor pool,     *)
(* with no PCM open: every alt of every interface, allocation          *)
(* failures, afunc_disable, and completions that only re-arm.          *)
(* ------------------------------------------------------------------ *)

\* the descriptor whose usb_ep_alloc_request fails (USB_XFERS: none)
FailAts == {3, USB_XFERS}

\* alt settings requested: off, two formats, one beyond the table
AltAlts == {0, 1, 2, MAX_AS_IN_ALT + 1}

AltSetAlt ==
    \E intf \in {ac_intf, as_out_intf, as_in_intf, 3},
       alt \in AltAlts, fail_at \in FailAts :
        /\ Solo(IntfDir(intf))
        /\ afunc_set_alt(intf, alt, "HIGH", fail_at)
        /\ UNCHANGED ncpl

AltDisable == afunc_disable /\ UNCHANGED ncpl

AltBegin ==
    \E d \in Dir, st \in Statuses :
        /\ ncpl < MaxRearms
        /\ epq[d] # <<>>
        /\ \E act \in Actuals(d) : agdev_iso_begin(d, st, act)
        /\ ncpl' = ncpl + 1

AltComplete == \E d \in Dir : agdev_iso_complete(d) /\ UNCHANGED ncpl

NextAlt ==
    \/ AltSetAlt
    \/ AltDisable
    \/ AltBegin
    \/ AltComplete

SpecAlt == Init /\ [][NextAlt]_vars

(* ------------------------------------------------------------------ *)
(* SpecCtl: the class requests of endpoint 0, one control transfer at  *)
(* a time, with playback selected and deselected in between.           *)
(* ------------------------------------------------------------------ *)

\* wLength of the requests: none, a rate, a range of one sub-range, more
\* than any response
WLengths == {0, 4, 14, 64}

\* bRequest: CUR, RANGE and one that is neither (MEM)
Requests == {UAC2_CS_CUR, UAC2_CS_RANGE, 3}

\* entity ids: the two clocks and one that is no clock of the function
Entities == {USB_OUT_CLK_ID, USB_IN_CLK_ID, 5}

\* control selectors: sample frequency, clock valid and an undefined one
Selectors == {UAC2_CS_CONTROL_SAM_FREQ, UAC2_CS_CONTROL_CLOCK_VALID, 0}

\* class requests to an interface, and a request of each other type and
\* recipient
ControlRequests ==
    [type : {"CLASS"}, recip : {"INTERFACE"},
     dir : {"in", "out"}, bRequest : Requests,
     intf : {ac_intf, as_out_intf}, entity_id : Entities, cs : Selectors,
     w_length : WLengths]
    \cup
    [type : {"CLASS", "VENDOR"}, recip : {"INTERFACE", "ENDPOINT"},
     dir : {"in", "out"}, bRequest : {UAC2_CS_CUR},
     intf : {ac_intf}, entity_id : {USB_IN_CLK_ID},
     cs : {UAC2_CS_CONTROL_SAM_FREQ}, w_length : {4}]

InitCtl == \E junk \in StackJunk : InitWith(UAC2_DEF_SRATE, junk)

\* ncpl counts the control transfers begun.
CtlSetup ==
    \E cr \in ControlRequests, junk \in StackJunk :
        /\ ncpl < MaxSetups
        /\ afunc_setup(cr, junk)
        /\ ncpl' = ncpl + 1

CtlComplete ==
    \E val \in SetCurRates : ep0_complete(val) /\ UNCHANGED ncpl

CtlSetAlt ==
    \E alt \in {0, 1} :
        /\ ~ep0req.queued
        /\ afunc_set_alt(as_in_intf, alt, "HIGH", USB_XFERS)
        /\ UNCHANGED ncpl

NextCtl ==
    \/ CtlSetup
    \/ CtlComplete
    \/ CtlSetAlt

SpecCtl == InitCtl /\ [][NextCtl]_vars

(* ------------------------------------------------------------------ *)
(* SpecCur: a host that reads and writes the sampling frequency of the *)
(* two clocks, one control transfer at a time, while user space reads  *)
(* and writes the attributes of the function.                          *)
(* ------------------------------------------------------------------ *)

\* control transfers explored by SpecCur
MaxCurSetups == 3

\* GET CUR and SET CUR of the sample-frequency control of either clock
CurRequests ==
    [type : {"CLASS"}, recip : {"INTERFACE"}, dir : {"in", "out"},
     bRequest : {UAC2_CS_CUR}, intf : {ac_intf},
     entity_id : {USB_IN_CLK_ID, USB_OUT_CLK_ID},
     cs : {UAC2_CS_CONTROL_SAM_FREQ}, w_length : WLengths]

\* ncpl counts the control transfers begun.
CurSetup ==
    \E cr \in CurRequests, junk \in StackJunk :
        /\ ncpl < MaxCurSetups
        /\ afunc_setup(cr, junk)
        /\ ncpl' = ncpl + 1

CurComplete ==
    \E val \in SetCurRates : ep0_complete(val) /\ UNCHANGED ncpl

\* user space reads or writes an attribute of the function in configfs
CurAttrLock ==
    \E call \in {"show", "store"} :
        f_uac2_opts_attr_lock(call) /\ UNCHANGED ncpl

CurAttrShow == f_uac2_opts_show /\ UNCHANGED ncpl

CurAttrStore == f_uac2_opts_store /\ UNCHANGED ncpl

NextCur ==
    \/ CurSetup
    \/ CurComplete
    \/ CurAttrLock
    \/ CurAttrShow
    \/ CurAttrStore

SpecCur == InitCtl /\ [][NextCur]_vars

(* ------------------------------------------------------------------ *)
(* Properties                                                          *)
(* ------------------------------------------------------------------ *)

\* C1: once free_ep has freed the requests of a direction, no completion
\* of that direction accounts a packet in hw_ptr, copies to or from the
\* ring, or hands the freed request to usb_ep_queue: a completion whose
\* request was freed takes none of the steps account, copy and exit.
C1_NoCompletionStepAfterFree ==
    [][\A d \in Dir :
          (cpl[d].freed /\ cpl[d].pc \in {"account", "copy", "exit"})
              => (cpl'[d] = cpl[d] /\ fault' = fault)]_vars

\* C2: while a substream is bound and the ring has C = dma_bytes > 0 bytes,
\* hw_ptr is in [0, C), and the accounting of a completion takes hw_ptr
\* from h to (h + req->actual) mod C.
C2_HwPtrAdvancesModulo ==
    [][\A d \in Dir :
          (ss'[d] # "NULL" /\ dma_bytes'[d] > 0)
              => /\ hw_ptr'[d] \in 0 .. (dma_bytes'[d] - 1)
                 /\ (cpl[d].pc = "account" /\ cpl'[d].pc = "copy")
                       => hw_ptr'[d] =
                            (hw_ptr[d] + cpl'[d].actual) % dma_bytes[d]]_vars

\* C2, its case: a capture completion has taken hw_ptr past the end of the
\* ring and back to its start.
C2_Wrapped ==
    \E d \in Dir :
        /\ ss[d] # "NULL"
        /\ cpl[d].pc = "copy"
        /\ cpl[d].actual > 0
        /\ cpl[d].hw + cpl[d].actual > dma_bytes[d]
        /\ hw_ptr[d] = cpl[d].hw + cpl[d].actual - dma_bytes[d]

\* C3: while a completion holds the lock to update hw_ptr, the substream it
\* read before is the one bound now: it never advances hw_ptr for a
\* substream that a finished trigger(stop) has unbound.
C3_NoTornBinding ==
    \A d \in Dir :
        (cpl[d].pc \in {"tick", "test", "carry", "account"} /\ ~cpl[d].freed)
            => cpl[d].substream = ss[d]

C5_RunningSumWithinOneFrame ==
    (as_alt["p"] # 0 /\ p_pktsize < max_psize /\ p_interval > 0)
        => LET T == Len(pkts)
               due == opts.p_srate * p_framesize * T
               sent == SumSeq(pkts) * p_interval
           IN  /\ sent - due < p_framesize * p_interval
               /\ due - sent < p_framesize * p_interval
               /\ \A k \in 1 .. T :
                     pkts[k] \in {p_pktsize, p_pktsize + p_framesize}

\* C5, its case: many ticks, one of them with the extra frame.
C5_LongRunWithCarry ==
    /\ as_alt["p"] # 0
    /\ p_pktsize < max_psize
    /\ Len(pkts) >= 20
    /\ \E k \in 1 .. Len(pkts) : pkts[k] = p_pktsize + p_framesize

\* C6 as stated: at 44100 Hz with 4-byte frames every 5th packet is 180
\* bytes, the others 176, and any 5 consecutive packets sum to 882 bytes.
C6_EveryFifthTick ==
    (as_alt["p"] # 0 /\ opts.p_srate = 44100 /\ p_framesize = 4)
        => /\ \A k \in 1 .. Len(pkts) :
                 pkts[k] = IF k % 5 = 0 THEN 180 ELSE 176
           /\ \A k \in 1 .. (Len(pkts) - 4) :
                 SumSeq(SubSeq(pkts, k, k + 4)) = 882

\* C6 as the code has it: at 44100 Hz with 4-byte frames p_pktsize is 176
\* and the residue per tick 400 against 4 * 1000, so every 10th packet is
\* 180 bytes, the others 176, and any 10 consecutive packets sum to 1764.
C6_EveryTenthTick ==
    (as_alt["p"] # 0 /\ opts.p_srate = 44100 /\ p_framesize = 4)
        => /\ p_pktsize = 176
           /\ p_pktsize_residue = 400
           /\ p_interval = 1000
           /\ \A k \in 1 .. Len(pkts) :
                 pkts[k] = IF k % 10 = 0 THEN 180 ELSE 176
           /\ \A k \in 1 .. (Len(pkts) - 9) :
                 SumSeq(SubSeq(pkts, k, k + 9)) = 1764

\* C6, its case: two full cycles at 44100 Hz with 4-byte frames.
C6_TwoCycles ==
    /\ as_alt["p"] # 0
    /\ opts.p_srate = 44100
    /\ p_framesize = 4
    /\ Len(pkts) >= 20

\* C7: afunc_set_alt with a non-zero alt on a direction that is active
\* leaves what afunc_set_alt(0) followed by afunc_set_alt(alt) leaves: the
\* endpoint enabled and 8 descriptors of the new request length, each
\* queued once, none of them queued a second time.
C7_ReactivationReprovisions ==
    [][\A d \in Dir, alt \in 1 .. MAX_AS_IN_ALT, speed \in Speeds :
          (/\ fault = "none"
           /\ as_alt[d] # 0
           /\ ep_enabled[d]
           /\ \A i \in Xfers : ureq[d][i].alloc
           /\ set_alt_stream(d, alt, speed, USB_XFERS))
              => /\ fault' = "none"
                 /\ requeued' = requeued
                 /\ ep_enabled'[d] /\ ep_on'[d]
                 /\ epq'[d] = [k \in 1 .. USB_XFERS |-> k - 1]
                 /\ \A i \in Xfers :
                       /\ ureq'[d][i].alloc
                       /\ ureq'[d][i].length =
                            IF d = "p" THEN p_pktsize' ELSE max_psize]_vars

\* C8: when usb_ep_alloc_request fails in afunc_set_alt the call returns
\* -ENOMEM and leaves the direction with no descriptor allocated or queued,
\* ep_enabled false and alt 0.
C8_AllocFailureRollsBack ==
    [][\A d \in Dir, alt \in 1 .. MAX_AS_IN_ALT, speed \in Speeds,
          fail_at \in Xfers :
          (/\ fault = "none"
           /\ ~ureq[d][fail_at].alloc
           /\ set_alt_stream(d, alt, speed, fail_at)
           /\ fault' = "none")
              => /\ ret' = "ENOMEM"
                 /\ \A i \in Xfers : ~ureq'[d][i].alloc
                 /\ epq'[d] = <<>>
                 /\ ~ep_enabled'[d]
                 /\ as_alt'[d] = 0]_vars

\* C9: usb_ep_queue is never called on a request that is still queued, and
\* no completion allocates or frees a request.
C9_ExclusiveOwnership ==
    [][/\ ~requeued'
       /\ (AltBegin \/ AltComplete)
             => \A d \in Dir, i \in Xfers :
                   ureq'[d][i].alloc = ureq[d][i].alloc]_vars

\* C10: afunc_set_alt with alt 0 or afunc_disable on a direction with all 8
\* descriptors queued ends with none allocated or queued, ep_enabled false
\* and the endpoint disabled; on a direction that is not enabled it leaves
\* the pool and the endpoint as they are.
C10_WithdrawalEmptiesPool ==
    [][\A d \in Dir :
          (fault = "none" /\ (afunc_disable \/ set_alt_zero(d, "FULL")))
              => /\ (ep_enabled[d] /\ Len(epq[d]) = USB_XFERS)
                       => /\ \A i \in Xfers : ~ureq'[d][i].alloc
                          /\ epq'[d] = <<>>
                          /\ ~ep_enabled'[d]
                          /\ ~ep_on'[d]
                 /\ ~ep_enabled[d]
                       => /\ ureq'[d] = ureq[d]
                          /\ epq'[d] = epq[d]
                          /\ ep_enabled'[d] = ep_enabled[d]
                          /\ ep_on'[d] = ep_on[d]]_vars

\* C11: a completion that finds the endpoint not enabled, or whose status is
\* -ESHUTDOWN, returns at once: hw_ptr, the ring, the pacing residue, the
\* requests and the endpoint queue stay as they are and nothing is notified.
\* Every other completion goes on, and returns only from its last statement
\* with its request queued on the endpoint again.
C11_DroppedOrRearmed ==
    [][\A d \in Dir :
          agdev_iso_complete(d)
              => /\ (/\ cpl[d].pc = "check"
                     /\ (~ep_enabled[d] \/ cpl[d].status = "ESHUTDOWN"))
                       => /\ cpl'[d].pc = "idle"
                          /\ UNCHANGED << hw_ptr, ring, p_residue, ureq, epq,
                                          periods >>
                 /\ (/\ cpl[d].pc = "check"
                     /\ ep_enabled[d]
                     /\ cpl[d].status # "ESHUTDOWN")
                       => cpl'[d].pc = "read_ss"
                 /\ (cpl[d].pc # "check" /\ cpl'[d].pc = "idle")
                       => /\ cpl[d].pc = "exit"
                          /\ \E k \in 1 .. Len(epq'[d]) :
                                epq'[d][k] = cpl[d].i]_vars

\* A completion with status -ESHUTDOWN has returned on an enabled endpoint:
\* its request is the one of the eight that is not queued.
C11_ShutdownDropped ==
    \E d \in Dir :
        /\ ncpl = 1
        /\ cpl[d].pc = "idle"
        /\ ep_enabled[d]
        /\ \A i \in Xfers : ureq[d][i].alloc
        /\ Len(epq[d]) = USB_XFERS - 1

\* C12: an afunc_set_alt that takes a streaming interface from alt 0 to an
\* alt of its table and returns 0 leaves ep_enabled true and the 8 requests
\* allocated, request i with its own slot rbuf + i * max_psize, and each of
\* the 8 queued on the endpoint once.
C12_ActivationProvisionsAll ==
    [][\A d \in Dir, alt \in 1 .. MAX_AS_IN_ALT, fail_at \in FailAts :
          (/\ fault = "none"
           /\ as_alt[d] = 0
           /\ as_alt'[d] = alt
           /\ set_alt_stream(d, alt, "HIGH", fail_at)
           /\ fault' = "none"
           /\ ret' = "OK")
              => /\ ep_enabled'[d]
                 /\ \A i \in Xfers :
                       /\ ureq'[d][i].alloc
                       /\ ureq'[d][i].buf = i * max_psize
                       /\ Cardinality({k \in 1 .. Len(epq'[d]) :
                                          epq'[d][k] = i}) = 1
                 /\ Len(epq'[d]) = USB_XFERS]_vars

\* A direction just activated from alt 0 with nothing failing.
C12_Activated ==
    \E d \in Dir :
        /\ as_alt[d] # 0
        /\ ret = "OK"
        /\ fault = "none"
        /\ ep_enabled[d]
        /\ epq[d] = [k \in 1 .. USB_XFERS |-> k - 1]
        /\ \A i \in Xfers : ureq[d][i].alloc /\ ureq[d][i].buf = i * max_psize

\* C13: when afunc_set_alt with alt 0 or afunc_disable withdraws a
\* direction, snd_pcm_stop is called only with a substream that is bound
\* (prm->ss not NULL), and the PCM is forced to DISCONNECTED exactly when one
\* is bound; a PCM that was opened and never started is left alone.
C13_StopOnlyOnBoundSubstream ==
    [][\A d \in Dir :
          (fault = "none" /\ (afunc_disable \/ set_alt_zero(d, "FULL")))
              => /\ StopCalled(d) => ss[d] # "NULL"
                 /\ ss[d] # "NULL" => runtime_state'[d] = "DISCONNECTED"
                 /\ ss[d] = "NULL" => runtime_state'[d] = runtime_state[d]]_vars

\* C14: afunc_set_alt returns -EINVAL and leaves the alt indices, the
\* configuration, the pacing values, ep_enabled, the requests, the endpoint
\* and the scheduled work as they are when the interface is not one of the
\* function's, when the alt of a streaming interface is above 6, and when
\* the alt of the control interface is not 0; alt 0 on the control interface
\* returns 0 and changes nothing either.
C14_InvalidAltRejected ==
    [][\A intf \in 0 .. 3, alt \in AltAlts :
          /\ (/\ \/ intf \notin {ac_intf, as_out_intf, as_in_intf}
                  \/ (intf \in {as_out_intf, as_in_intf} /\ alt > 6)
                  \/ (intf = ac_intf /\ alt # 0)
               /\ fault = "none"
               /\ afunc_set_alt(intf, alt, "HIGH", USB_XFERS))
                  => /\ ret' = "EINVAL"
                     /\ UNCHANGED << as_alt, opts, pacing, p_residue,
                                     ep_enabled, ureq, epq, ep_on, work, ss,
                                     runtime_state, fault >>
          /\ (/\ intf = ac_intf
               /\ alt = 0
               /\ fault = "none"
               /\ afunc_set_alt(intf, alt, "HIGH", USB_XFERS))
                  => /\ ret' = "OK"
                     /\ UNCHANGED << as_alt, opts, pacing, p_residue,
                                     ep_enabled, ureq, epq, ep_on, work, ss,
                                     runtime_state, fault >>]_vars

\* A request was refused with -EINVAL while a stream is active.
C14_RejectedWhileActive ==
    /\ ret = "EINVAL"
    /\ fault = "none"
    /\ \E d \in Dir : as_alt[d] # 0 /\ ep_enabled[d] /\ Len(epq[d]) = USB_XFERS

\* C15: with the rate unchanged, afunc_set_alt to playback alt k, then to
\* alt 0, then to alt k again ends with the pacing values a first
\* afunc_set_alt to alt k gives: the completions in between and the two
\* later calls leave p_pktsize, p_pktsize_residue, p_interval and
\* p_framesize as the first call set them, and both calls end with
\* p_residue 0.
C15_ReactivationSamePacing ==
    [][/\ \A speed \in Speeds :
            (/\ fault = "none"
             /\ as_alt["p"] # 0
             /\ set_alt_zero("p", speed))
                => pacing' = pacing /\ p_residue' = 0
       /\ \A speed \in Speeds, k \in 1 .. MAX_AS_IN_ALT :
            (/\ fault = "none"
             /\ as_alt["p"] = 0
             /\ p_interval # 0
             /\ AltFormat(k).ssize = opts.p_ssize
             /\ AltFormat(k).chmask = opts.p_chmask
             /\ set_alt_stream("p", k, speed, USB_XFERS))
                => pacing' = pacing /\ p_residue' = 0
       /\ (StreamBegin \/ StreamComplete) => pacing' = pacing]_vars

\* Playback alt k is selected again after a stream at 44100 Hz was cut off
\* three packets into its cycle, with a residue pending.
C15_ReactivatedAfterResidue ==
    /\ as_alt["p"] # 0
    /\ runtime_state["p"] = "DISCONNECTED"
    /\ opts.p_srate = 44100
    /\ ncpl = 3
    /\ p_residue = 0
    /\ p_pktsize_residue # 0
    /\ Len(epq["p"]) = USB_XFERS

\* C16: afunc_set_alt to playback alt k in 1 .. 6 ends with p_framesize =
\* sub-slot size times channel count (2, 4, 3, 6, 4, 8 for k = 1 .. 6),
\* p_pktsize = min(p_srate * p_framesize / p_interval, max_psize),
\* p_pktsize_residue = (p_srate * p_framesize) mod p_interval when p_pktsize
\* is below max_psize and 0 when it is not, and p_residue = 0.
C16_PacingAtActivation ==
    [][\A k \in 1 .. MAX_AS_IN_ALT, speed \in Speeds :
          (fault = "none" /\ set_alt_stream("p", k, speed, USB_XFERS))
              => LET fs == << 2, 4, 3, 6, 4, 8 >>[k]
                     rate == opts.p_srate * fs
                     base == rate \div p_interval'
                 IN  /\ opts'.p_srate = opts.p_srate
                     /\ p_interval' > 0
                     /\ p_framesize' = fs
                     /\ p_pktsize' = (IF base < max_psize THEN base
                                      ELSE max_psize)
                     /\ p_pktsize_residue' =
                           (IF p_pktsize' < max_psize
                            THEN rate % p_interval' ELSE 0)
                     /\ p_residue' = 0]_vars

\* Playback alt 6 was just activated at a rate whose packet is capped at
\* max_psize.
C16_CappedActivation ==
    /\ as_alt["p"] = 6
    /\ opts.p_srate * 8 > max_psize * p_interval
    /\ p_pktsize = max_psize
    /\ p_pktsize_residue = 0
    /\ runtime_state["p"] = "CLOSED"
    /\ Len(epq["p"]) = USB_XFERS

\* C17: a completion calls snd_pcm_period_elapsed exactly when the offset of
\* the old hw_ptr in its period plus the bytes of the packet reaches
\* period_size, and calls it once at most; a completion that leaves hw_ptr
\* alone notifies nothing.
C17_PeriodElapsedOnCrossing ==
    [][\A d \in Dir :
          agdev_iso_complete(d)
              => /\ cpl[d].pc = "account" /\ fault' = "none"
                       => /\ cpl'[d].hw = hw_ptr[d]
                          /\ hw_ptr'[d] = (hw_ptr[d] + cpl'[d].actual)
                                              % dma_bytes[d]
                 /\ periods'[d] =
                       periods[d] +
                       (IF /\ cpl[d].pc = "exit"
                           /\ cpl[d].substream # "NULL"
                           /\ (cpl[d].hw % period_size[d]) + cpl[d].actual
                                  >= period_size[d]
                        THEN 1 ELSE 0)]_vars

\* A playback packet that ends exactly on a period boundary is about to be
\* notified.
C17_EndsOnBoundary ==
    /\ cpl["p"].pc = "exit"
    /\ cpl["p"].update_alsa
    /\ (cpl["p"].hw % period_size["p"]) + cpl["p"].actual = period_size["p"]

\* C18: a SET CUR of the sample-frequency control on clock entity 9 or 10
\* is accepted with the length of its payload and changes no rate; when its
\* data stage is over, the rate of the entity addressed (p_srate for 10,
\* c_srate for 9) is the value the host sent if that is 44100 or 48000, and
\* otherwise both rates are as before; the rate of the other direction is
\* never changed.
C18_SetCurCommitsPayload ==
    [][/\ \/ ncpl' = ncpl
          \/ \A cr \in [type : {"CLASS"}, recip : {"INTERFACE"},
                          dir : {"out"}, bRequest : {UAC2_CS_CUR},
                          intf : {ac_intf}, entity_id : {9, 10},
                          cs : {UAC2_CS_CONTROL_SAM_FREQ},
                          w_length : WLengths],
                junk \in StackJunk :
                afunc_setup(cr, junk)
                    => /\ ret' = "OK"
                       /\ ep0req'.queued
                       /\ ep0req'.length = cr.w_length
                       /\ ep0req'.complete =
                             (IF cr.entity_id = 10 THEN "set_p_srate_complete"
                              ELSE "set_c_srate_complete")
                       /\ opts' = opts
       /\ \A val \in SetCurRates :
             (/\ ep0req.dir = "out"
              /\ ep0req.complete # "composite_setup_complete"
              /\ ep0_complete(val))
                 => opts' =
                       (IF ep0req.length < 4 \/ val \notin {44100, 48000}
                        THEN opts
                        ELSE IF ep0req.complete = "set_p_srate_complete"
                        THEN [opts EXCEPT !.p_srate = val]
                        ELSE [opts EXCEPT !.c_srate = val])]_vars

\* C19: a class request that is none of GET CUR, GET RANGE or SET CUR of the
\* sample-frequency control on clock entity 9 or 10, nor GET CUR of the
\* clock-valid control, is answered with -EOPNOTSUPP, queues nothing on
\* endpoint 0 and leaves the configuration as it is.
C19_UnsupportedRejected ==
    [][\/ /\ ret' = "EOPNOTSUPP"
          /\ ~ep0req'.queued
          /\ opts' = opts
       \/ ~\E cr \in ControlRequests, junk \in StackJunk :
             /\ cr.type = "CLASS"
             /\ ~(/\ cr.recip = "INTERFACE"
                  /\ cr.intf = ac_intf
                  /\ \/ /\ cr.cs = UAC2_CS_CONTROL_SAM_FREQ
                        /\ cr.entity_id \in {9, 10}
                        /\ \/ cr.dir = "in" /\ cr.bRequest = UAC2_CS_CUR
                           \/ cr.dir = "in" /\ cr.bRequest = UAC2_CS_RANGE
                           \/ cr.dir = "out" /\ cr.bRequest = UAC2_CS_CUR
                     \/ /\ cr.cs = UAC2_CS_CONTROL_CLOCK_VALID
                        /\ cr.dir = "in"
                        /\ cr.bRequest = UAC2_CS_CUR)
             /\ afunc_setup(cr, junk)]_vars

\* C20: GET RANGE of the sample-frequency control is answered with
\* -EOPNOTSUPP for an entity that is neither clock; for clock entity 10
\* (resp. 9) the response is one sub-range, count 1, with minimum and
\* maximum p_srate (resp. c_srate) and resolution 0, cut to wLength.
C20_RangeIsCurrentRate ==
    [][\/ ncpl' = ncpl
       \/ \A cr \in [type : {"CLASS"}, recip : {"INTERFACE"},
                       dir : {"in"}, bRequest : {UAC2_CS_RANGE},
                       intf : {ac_intf}, entity_id : Entities,
                       cs : {UAC2_CS_CONTROL_SAM_FREQ},
                       w_length : WLengths],
             junk \in StackJunk :
             afunc_setup(cr, junk)
                 => IF cr.entity_id \notin {9, 10}
                    THEN ret' = "EOPNOTSUPP" /\ ~ep0req'.queued
                    ELSE LET rate == IF cr.entity_id = 10 THEN opts.p_srate
                                     ELSE opts.c_srate
                             range == LE16(1) \o LE32(rate) \o LE32(rate)
                                              \o LE32(0)
                             n == Min(cr.w_length, Len(range))
                         IN  /\ ret' = "OK"
                             /\ ep0req'.queued
                             /\ ep0req'.length = n
                             /\ SubSeq(ep0req'.buf, 1, n)
                                   = SubSeq(range, 1, n)]_vars

\* C21: in the GET RANGE response the sub-range count is immediately
\* followed by the triple of the one sub-range: bytes 2..13 of the payload
\* are rate, rate, 0 as little-endian 32-bit values, and no byte beyond
\* these initialised fields is sent to the host.
C21_RangeTripleFollowsCount ==
    [][\/ ncpl' = ncpl
       \/ \A cr \in [type : {"CLASS"}, recip : {"INTERFACE"},
                       dir : {"in"}, bRequest : {UAC2_CS_RANGE},
                       intf : {ac_intf},
                       entity_id : {USB_IN_CLK_ID, USB_OUT_CLK_ID},
                       cs : {UAC2_CS_CONTROL_SAM_FREQ},
                       w_length : {14, 64}],
             junk \in StackJunk :
             afunc_setup(cr, junk)
                 => LET rate == IF cr.entity_id = USB_IN_CLK_ID
                                THEN opts.p_srate ELSE opts.c_srate
                    IN  /\ ep0req'.length = 2 + 3 * 4
                        /\ SubSeq(ep0req'.buf, 3, 14)
                              = LE32(rate) \o LE32(rate) \o LE32(0)]_vars

\* C22: GET CUR of the sample-frequency control on clock entity 10 (resp. 9)
\* queues min(wLength, 4) bytes, the first bytes of the little-endian image
\* of p_srate (resp. c_srate); and when the data stage of a SET CUR that
\* carries a rate is over, the answer a GET CUR would now get for that
\* entity is the rate sent if it is 44100 or 48000, and the answer it would
\* have got before otherwise.
C22_GetCurRoundTrip ==
    [][/\ \/ ncpl' = ncpl
          \/ \A cr \in CurRequests, junk \in StackJunk :
                (cr.dir = "in" /\ afunc_setup(cr, junk))
                    => LET rate == IF cr.entity_id = USB_IN_CLK_ID
                                   THEN opts.p_srate ELSE opts.c_srate
                           n == Min(cr.w_length, 4)
                       IN  /\ ret' = "OK"
                           /\ ep0req'.queued
                           /\ ep0req'.length = n
                           /\ SubSeq(ep0req'.buf, 1, n)
                                 = SubSeq(LE32(rate), 1, n)
                           /\ opts' = opts
       /\ \A val \in SetCurRates :
             (/\ ep0req.dir = "out"
              /\ ep0req.complete # "composite_setup_complete"
              /\ ep0req.length >= 4
              /\ ep0_complete(val))
                 => LET id == IF ep0req.complete = "set_p_srate_complete"
                              THEN USB_IN_CLK_ID ELSE USB_OUT_CLK_ID
                        get == [type |-> "CLASS", recip |-> "INTERFACE",
                                dir |-> "in", bRequest |-> UAC2_CS_CUR,
                                intf |-> ac_intf, entity_id |-> id,
                                cs |-> UAC2_CS_CONTROL_SAM_FREQ,
                                w_length |-> 4]
                        before == SubSeq(in_rq_cur(ep0req, get, 0).buf, 1, 4)
                        after == SubSeq(in_rq_cur(ep0req, get, 0).buf, 1, 4)'
                    IN  after = IF val \in {44100, 48000} THEN LE32(val)
                                ELSE before]_vars

\* A GET CUR is being answered with 44100, the rate a SET CUR committed.
C22_ReadBackNewRate ==
    /\ ep0req.queued
    /\ ep0req.dir = "in"
    /\ ep0req.length = 4
    /\ opts.p_srate = 44100
    /\ opts.c_srate = UAC2_DEF_SRATE
    /\ SubSeq(ep0req.buf, 1, 4) = LE32(44100)

\* C23: a SET CUR completion writes the sample rate under the configuration
\* lock: p_srate and c_srate change only in a step taken while no other
\* call holds opts->lock.
C23_RateWrittenUnderConfigLock ==
    [][(opts'.p_srate # opts.p_srate \/ opts'.c_srate # opts.c_srate)
          => opts_lock = "none"]_vars

\* C24: uac2_pcm_open of a direction returns -EPIPE and leaves is_pcm_open
\* as it is exactly when the alt setting of that direction's streaming
\* interface is 0 (as_in_alt for playback, as_out_alt for capture);
\* otherwise it returns 0, sets that direction's is_pcm_open, and binds
\* rate_min = rate_max to that direction's rate and channels_min =
\* channels_max to the number of bits set in its channel mask.
C24_OpenNeedsActiveAlt ==
    [][\A d \in Dir :
          uac2_pcm_open(d)
              => LET rate == IF d = "p" THEN opts.p_srate ELSE opts.c_srate
                     mask == IF d = "p" THEN opts.p_chmask ELSE opts.c_chmask
                     bits == Cardinality({b \in 0 .. 7 :
                                             (mask \div (2 ^ b)) % 2 = 1})
                 IN  IF as_alt[d] = 0
                     THEN /\ ret' = "EPIPE"
                          /\ is_pcm_open' = is_pcm_open
                     ELSE /\ ret' = "OK"
                          /\ is_pcm_open' = [is_pcm_open EXCEPT ![d] = TRUE]
                          /\ runtime_hw'[d] =
                                [rate_min |-> rate, rate_max |-> rate,
                                 channels_min |-> bits,
                                 channels_max |-> bits]]_vars

\* The capture device was opened on the mono alt and is bound to one
\* channel and to a capture rate that differs from the playback rate.
C24_CaptureOpenAtOwnRate ==
    /\ is_pcm_open["c"]
    /\ runtime_state["c"] = "OPEN"
    /\ as_alt["c"] = 1
    /\ opts.p_srate = 192000
    /\ runtime_hw["c"] = [rate_min |-> 44100, rate_max |-> 44100,
                          channels_min |-> 1, channels_max |-> 1]
    /\ ret = "OK"

\* C25: uac2_pcm_trigger with START or RESUME binds the substream (ss) and
\* sets hw_ptr to 0 and leaves the staging buffers as they are; with STOP or
\* SUSPEND it sets ss to NULL, and on the playback side clears all
\* USB_XFERS slots of rbuf, on the capture side none.  hw_ptr leaves 0 only
\* in the accounting of a completion, which saves the old value as the ring
\* offset of its copy: the first completion accounted after a start copies
\* at offset 0.
C25_TriggerBindsAndResets ==
    [][/\ \A d \in Dir, cmd \in {"START", "RESUME", "STOP", "SUSPEND"} :
             uac2_pcm_trigger(d, cmd)
                 => /\ ret' = "OK"
                    /\ IF cmd \in {"START", "RESUME"}
                       THEN /\ ss'[d] = "substream"
                            /\ hw_ptr'[d] = 0
                            /\ rbuf' = rbuf
                       ELSE /\ ss'[d] = "NULL"
                            /\ rbuf'[d] =
                                  (IF d = "p" THEN [s \in 0 .. 7 |-> FALSE]
                                   ELSE rbuf[d])
       /\ \A d \in Dir :
             hw_ptr'[d] # hw_ptr[d]
                 => \/ hw_ptr'[d] = 0
                    \/ /\ cpl[d].pc = "account"
                       /\ cpl'[d].pc = "copy"
                       /\ cpl'[d].hw = hw_ptr[d]]_vars

\* Playback accounted and staged one packet and was then suspended: the
\* substream is unbound, hw_ptr is 0 again and every staging slot is clear.
C25_SuspendedAfterStaging ==
    /\ runtime_state["p"] = "SUSPENDED"
    /\ ss["p"] = "NULL"
    /\ Len(pkts) = 1
    /\ cpl["p"].pc = "idle"
    /\ hw_ptr["p"] = 0
    /\ \A s \in Xfers : ~rbuf["p"][s]

\* C26: the completion path touches hw_ptr and the bound substream ss only
\* with the lock of its direction held: the step that reads prm->ss, and
\* the step that advances hw_ptr, are taken while the lock is held.
C26_SubstreamReadUnderLock ==
    [][\A d \in Dir :
          /\ agdev_iso_read_ss(d) => lock[d]
          /\ agdev_iso_account(d) => lock[d]]_vars

\* C27: a call on the capture side (open, close, hw_params, hw_free,
\* trigger, a completion step, set_alt on the stream-out interface) leaves
\* the playback ring, hw_ptr, descriptor pool and pacing state, p_residue
\* included, as they were; and a call on the playback side leaves the
\* capture ring, hw_ptr and descriptor pool as they were.
C27_OtherDirectionUntouched ==
    [][LET Op(d) ==
               \/ uac2_pcm_open(d)
               \/ uac2_pcm_close(d)
               \/ \E g \in Geometries, ok \in BOOLEAN :
                     uac2_pcm_hw_params(d, g, ok)
               \/ uac2_pcm_hw_free(d)
               \/ \E cmd \in TriggerCmds : uac2_pcm_trigger(d, cmd)
               \/ \E st \in Statuses, act \in CaptureLens \cup {p_pktsize} :
                     agdev_iso_begin(d, st, act)
               \/ agdev_iso_complete(d)
               \/ \E alt \in 0 .. MAX_AS_IN_ALT, speed \in Speeds :
                     afunc_set_alt(IF d = "p" THEN as_in_intf
                                   ELSE as_out_intf, alt, speed, USB_XFERS)
           Kept(o) ==
               /\ dma_bytes'[o] = dma_bytes[o]
               /\ dma_area'[o] = dma_area[o]
               /\ period_size'[o] = period_size[o]
               /\ hw_ptr'[o] = hw_ptr[o]
               /\ ureq'[o] = ureq[o]
               /\ epq'[o] = epq[o]
               /\ ep_on'[o] = ep_on[o]
               /\ ep_enabled'[o] = ep_enabled[o]
               /\ rbuf'[o] = rbuf[o]
       IN  /\ Op("c") => (Kept("p") /\ UNCHANGED << pacing, p_residue >>)
           /\ Op("p") => Kept("c")]_vars

\* C28: the connected notification of a direction is sent only by a run of
\* its work item that the timer of UAC2_UEVENT_DELAY put on the queue,
\* never by a run that was queued with no delay; and a run that finds the
\* alt setting at 0 sends no connected notification.
C28_ConnectedOnlyAfterDelay ==
    [][\A d \in Dir :
          (/\ Len(uevent'.sent) > Len(uevent.sent)
           /\ uevent'.sent[Len(uevent'.sent)] = Connected(d))
              => /\ as_alt[d] # 0
                 /\ \/ work[UeventWork(d)] = "timed"
                    \/ uevent.running = [w |-> UeventWork(d),
                                         timed |-> TRUE]]_vars

\* C29: a completion whose status is neither 0 nor -ESHUTDOWN goes through
\* the same statements as one whose status is 0: on an enabled endpoint it
\* is not dropped; with a substream bound, hw_ptr advances by its actual
\* length modulo dma_bytes and that many bytes are copied at the old
\* hw_ptr; and its last statement queues the same request once, after which
\* the request is on the endpoint queue exactly once.
C29_FailedHandledAsSuccessful ==
    [][\A d \in Dir :
          (cpl[d].status # "ESHUTDOWN" /\ agdev_iso_complete(d))
              => LET i == cpl[d].i
                     actual == IF d = "p" THEN cpl[d].length
                               ELSE cpl[d].actual
                 IN  /\ cpl[d].pc = "check"
                           => cpl'[d].pc = (IF ep_enabled[d] THEN "read_ss"
                                            ELSE "idle")
                     /\ cpl[d].pc = "account"
                           => /\ cpl'[d].pc = "copy"
                              /\ cpl'[d].hw = hw_ptr[d]
                              /\ cpl'[d].actual = actual
                              /\ hw_ptr'[d] =
                                    (hw_ptr[d] + actual) % dma_bytes[d]
                     /\ cpl[d].pc = "copy"
                           => /\ cpl'[d].pc = "exit"
                              /\ d = "p" =>
                                    rbuf'[d][i] = (rbuf[d][i] \/ actual > 0)
                     /\ cpl[d].pc = "exit"
                           => /\ cpl'[d].pc = "idle"
                              /\ epq'[d] = Append(epq[d], i)
                              /\ Cardinality({k \in 1 .. Len(epq'[d]) :
                                                 epq'[d][k] = i}) = 1]_vars

\* A capture completion with status -EXDEV and 192 bytes received has been
\* accounted and copied and is about to queue its request again.
C29_FailedCaptureAccounted ==
    /\ cpl["c"].pc = "exit"
    /\ cpl["c"].status = "EXDEV"
    /\ cpl["c"].substream = "substream"
    /\ cpl["c"].actual = 192
    /\ cpl["c"].hw = 0
    /\ hw_ptr["c"] = 192

\* C30: while the stream-in interface is active at p_srate 48000 with
\* 4-byte frames, p_pktsize is 192 and p_pktsize_residue is 0, p_residue is
\* 0 at every statement of every completion, every request on the endpoint
\* is 192 bytes long, and every packet accounted since the activation was
\* 192 bytes, however many there were.
C30_ExactMultipleNoCarry ==
    (as_alt["p"] # 0 /\ opts.p_srate = 48000 /\ p_framesize = 4)
        => /\ p_pktsize = 192
           /\ p_pktsize_residue = 0
           /\ p_residue = 0
           /\ \A i \in Xfers : ureq["p"][i].alloc => ureq["p"][i].length = 192
           /\ cpl["p"].pc \in {"test", "carry", "account", "copy", "exit"}
                 => cpl["p"].length = 192
           /\ \A k \in 1 .. Len(pkts) : pkts[k] = 192

\* Twenty packets of 192 bytes were sent at 48000 Hz, stereo, 16 bits.
C30_TwentyPacketsOf192 ==
    /\ as_alt["p"] = 2
    /\ opts.p_srate = 48000
    /\ p_framesize = 4
    /\ Len(pkts) >= 20
    /\ SumSeq(pkts) = 192 * Len(pkts)

\* C31: in agdev_iso_complete the lock of the direction is held only for
\* the pointer bookkeeping (the pacing tick, the period test, the update of
\* hw_ptr).  It is not held while the call copies between the ring and
\* req->buf, while it re-arms the request and notifies ALSA, or once the
\* call has returned: every path through the function has released it.
C31_LockOnlyForBookkeeping ==
    \A d \in Dir :
        /\ lock[d] => cpl[d].pc \in {"tick", "test", "carry", "account"}
        /\ cpl[d].pc \in {"copy", "exit", "idle"} => ~lock[d]

\* A completion that advanced hw_ptr under the lock is about to copy a
\* packet, with the lock released.
C31_CopyingUnlocked ==
    \E d \in Dir :
        /\ cpl[d].pc = "copy"
        /\ cpl[d].actual > 0
        /\ hw_ptr[d] = cpl[d].hw + cpl[d].actual
        /\ ~lock[d]

\* C32: however agdev_iso_complete interleaves with uac2_pcm_trigger(stop)
\* and uac2_pcm_hw_free of its direction, a completion never takes a
\* remainder by period_size or dma_bytes while they are 0, and never copies
\* to or from a ring that hw_free has unbound.
C32_CompletionNeverMeetsFreedRing ==
    [][\A d \in Dir :
         runtime_state[d] # "DISCONNECTED" =>
           /\ agdev_iso_account(d) =>
                 period_size[d] # 0 /\ dma_bytes[d] # 0
           /\ agdev_iso_copy(d) /\ cpl[d].actual > 0 =>
                 dma_area[d] # "NULL" /\ dma_bytes[d] # 0]_vars

\* C33: however the completions of the playback endpoint interleave with
\* afunc_set_alt on the stream-in interface, the residue accumulator never
\* underflows: p_residue -= p_framesize * p_interval is executed only when
\* p_residue >= p_framesize * p_interval.
C33_CarryNeverUnderflows ==
    [][agdev_iso_carry => p_residue >= p_framesize * p_interval]_vars

\* C34: for every configured sample rate, frame size and max_psize, every
\* playback packet the completion path produces (p_pktsize, or p_pktsize +
\* p_framesize on a residue tick) is at most max_psize long, the size of
\* the staging slot of its descriptor, so that the copy into descriptor i
\* reaches neither the slot of descriptor i+1 nor the end of rbuf.
\* Stated for the completions of a stream whose alt was selected once, so
\* that every packet since the pacing was computed is in pkts.
C34_PacketFitsItsSlot ==
    [][agdev_iso_copy("p") /\ Len(pkts) = ncpl =>
         /\ cpl["p"].actual <= max_psize
         /\ Touched(ureq["p"][cpl["p"].i].buf, cpl["p"].actual)
              \subseteq {cpl["p"].i}]_vars

\* C35: uac2_pcm_trigger called with a command other than start, resume,
\* stop or suspend returns -EINVAL and leaves hw_ptr, the substream binding
\* and the staging buffers as they were.
C35_InvalidTriggerChangesNothing ==
    [][\A d \in Dir :
         \A cmd \in TriggerCmds \ {"START", "RESUME", "STOP", "SUSPEND"} :
           uac2_pcm_trigger(d, cmd) =>
             /\ ret' = "EINVAL"
             /\ hw_ptr' = hw_ptr
             /\ ss' = ss
             /\ rbuf' = rbuf]_vars

\* C36: a completion on an enabled endpoint that finds no substream bound
\* (prm->ss is NULL) goes straight to the exit, where it queues the same
\* descriptor again with its request length unchanged; it leaves hw_ptr,
\* the ring and the playback residue accumulator unchanged and calls
\* snd_pcm_period_elapsed for no period.
C36_UnboundCompletionOnlyRearms ==
    [][\A d \in Dir :
         LET i == cpl[d].i
             Kept == /\ hw_ptr' = hw_ptr
                     /\ UNCHANGED ring
                     /\ p_residue' = p_residue
                     /\ periods' = periods
                     /\ rbuf' = rbuf
         IN  /\ (agdev_iso_read_ss(d) /\ ss[d] = "NULL") =>
                   /\ cpl'[d].pc = "exit"
                   /\ cpl'[d].substream = "NULL"
                   /\ cpl'[d].length = ureq[d][i].length
                   /\ ~cpl'[d].update_alsa
                   /\ ureq' = ureq /\ epq' = epq
                   /\ Kept
             /\ (agdev_iso_exit(d) /\ cpl[d].substream = "NULL"
                   /\ ep_enabled[d]) =>
                   /\ cpl'[d].pc = "idle"
                   /\ ureq' = ureq
                   /\ epq' = [epq EXCEPT ![d] = Append(@, i)]
                   /\ Kept]_vars

\* A playback stream at 44100 Hz was stopped after one tick; the second
\* completion found no substream: both requests are queued again, one
\* packet was accounted and the residue of the first tick is still there.
C36_RearmedAfterStop ==
    /\ ss["p"] = "NULL"
    /\ runtime_state["p"] \in {"SETUP", "SUSPENDED"}
    /\ cpl["p"].pc = "idle"
    /\ ncpl = 2
    /\ Len(epq["p"]) = USB_XFERS
    /\ epq["p"][USB_XFERS] = 1
    /\ Len(pkts) = 1
    /\ p_residue = 400

\* C37: whenever the pointer query can observe that hw_ptr has advanced
\* past a byte range of the ring, the completion has finished copying that
\* range: no completion has published the position after its packet while
\* the copy of the packet is still to be done.
C37_PointerBehindPendingCopy ==
    \A d \in Dir :
        (cpl[d].pc = "copy" /\ cpl[d].actual > 0 /\ dma_bytes[d] # 0) =>
            uac2_pcm_pointer(d) #
                bytes_to_frames(d, Advance(cpl[d].hw, cpl[d].actual,
                                           dma_bytes[d]))

\* C38: a playback rate committed by SET CUR while the stream-in interface
\* is active changes opts->p_srate only: p_pktsize, p_pktsize_residue,
\* p_framesize, p_interval and p_residue stay as the last afunc_set_alt on
\* the interface left them, every tick takes its packet length from them,
\* and the next afunc_set_alt on the interface recomputes them from the
\* rate that is current then.
C38_SetCurLeavesPacing ==
    [][/\ \A buf \in clk_frequencies :
            (set_srate_complete("p", buf) /\ as_alt["p"] # 0) =>
                /\ opts'.p_srate = buf
                /\ UNCHANGED << pacing, p_residue >>
       /\ agdev_iso_tick => cpl'["p"].length = p_pktsize
       /\ agdev_iso_carry =>
            cpl'["p"].length = cpl["p"].length + p_framesize
       /\ \A alt \in {0, 2} :
            (/\ afunc_set_alt(as_in_intf, alt, "HIGH", USB_XFERS)
             /\ fault' # "null_deref") =>
                LET f == IF alt = 0
                         THEN [ssize |-> opts.p_ssize,
                               chmask |-> opts.p_chmask]
                         ELSE AltFormat(alt)
                    rate == opts.p_srate * f.ssize * num_channels(f.chmask)
                IN  /\ p_interval' = Interval("HIGH")
                    /\ p_framesize' = f.ssize * num_channels(f.chmask)
                    /\ p_pktsize' =
                         Min(rate \div Interval("HIGH"), max_psize)
                    /\ p_pktsize_residue' =
                         (IF p_pktsize' < max_psize
                          THEN rate % Interval("HIGH") ELSE 0)
                    /\ p_residue' = 0]_vars

\* The host set the rate to 48000 Hz between two completions of a stream
\* activated at 88200 Hz; the completion that followed took the packet
\* length of 88200 Hz, 352 bytes.
C38_OldPacketAfterSetCur ==
    /\ as_alt["p"] = 2
    /\ opts.p_srate = 48000
    /\ p_pktsize = 352
    /\ cpl["p"].pc = "test"
    /\ cpl["p"].length = 352
    /\ ncpl < MaxPaceTicks

\* C39: for one device instance and for each direction, over any sequence
\* of alt-setting changes and runs of the uevent work item, the connected
\* and the disconnected notifications of the direction alternate strictly,
\* starting with connected: no two connected notifications without a
\* disconnected one between them, no disconnected one before a connected
\* one or right after another disconnected one.
C39_NotificationsAlternate ==
    \A d \in Dir :
        LET s == SelectSeq(uevent.sent,
                           LAMBDA e : e \in {Connected(d), Disconnected(d)})
        IN  /\ \A k \in 1 .. Len(s) :
                  s[k] = IF k % 2 = 1 THEN Connected(d) ELSE Disconnected(d)
            /\ uevent.is_prv_connect[d] = (Len(s) % 2 = 1)

\* The host deselected and selected the alt again before the work item
\* ran: the item sent the missed disconnect, slept, and is about to send
\* the second connect.
C39_MissedDisconnectSent ==
    \E d \in Dir :
        /\ uevent.running.w = UeventWork(d)
        /\ as_alt[d] # 0
        /\ SelectSeq(uevent.sent,
                     LAMBDA e : e \in {Connected(d), Disconnected(d)})
             = << Connected(d), Disconnected(d) >>

\* C40: once afunc_disable has returned and every work item it made
\* pending (disconnect_work, then p_work and c_work) has run, however the
\* worker interleaved with afunc_disable, the cable-disconnected
\* notification has been sent and no direction is left reported as
\* connected: the last notification of a direction whose alt setting is 0
\* is not its connected one.
C40_NoneLeftConnectedAfterDisable ==
    (/\ ret # "INPROGRESS"
     /\ \A w \in DOMAIN work : work[w] = "idle"
     /\ uevent.running = NotRunning
     /\ \E k \in 1 .. Len(uevent.sent) :
           uevent.sent[k] = "HOST_CABLE_DISCONNECTED")
    => \A d \in Dir :
         as_alt[d] = 0 =>
           LET s == SelectSeq(uevent.sent,
                              LAMBDA e : e \in {Connected(d), Disconnected(d)})
           IN  s = <<>> \/ s[Len(s)] = Disconnected(d)

====
